---- MODULE Spec2Model ----
(***************************************************************************)
(* NetGauze: the BMP stream codec (framing decoder, session context       *)
(* store, two-pass length-prefixed encoder) and the IPFIX set / record     *)
(* parsers, as state machines over byte sequences.                         *)
(*                                                                         *)
(* A byte is a natural number in 0..255; a buffer is a sequence of bytes.  *)
(***************************************************************************)
EXTENDS Integers, Sequences, FiniteSets, TLC

(***************************************************************************)
(* Bounds of the model                                                     *)
(***************************************************************************)
\* number of Encode / Inject operations on one stream
MaxItems == 2

(***************************************************************************)
(* Byte helpers (byteorder::NetworkEndian, bytes::Buf)                     *)
(***************************************************************************)
RECURSIVE Repeat(_, _)
Repeat(b, n) == IF n <= 0 THEN <<>> ELSE <<b>> \o Repeat(b, n - 1)

\* writer.write_u8(v)
U8(v) == <<v % 256>>

\* writer.write_u16::<NetworkEndian>(v); `as u16` keeps the low 16 bits
Be16(v) == <<(v \div 256) % 256, v % 256>>

\* writer.write_u32::<NetworkEndian>(v)
Be32(v) == <<(v \div 16777216) % 256, (v \div 65536) % 256, (v \div 256) % 256, v % 256>>

\* NetworkEndian::read_u16 / nom be_u16 on two bytes
ReadU16(b) == b[1] * 256 + b[2]

\* NetworkEndian::read_u32 on four bytes.  The value is only ever compared
\* with buffer lengths, so values of 2^31 and above (outside the checker's
\* integer range) are represented by the largest representable integer.
ReadU32(b) ==
    IF b[1] >= 128 THEN 2147483647
    ELSE ((b[1] * 256 + b[2]) * 256 + b[3]) * 256 + b[4]

\* buf.advance(n) / the remainder of a span after n bytes
Drop(s, n) == SubSeq(s, n + 1, Len(s))

\* the first n bytes of a span
Take(s, n) == SubSeq(s, 1, n)

IsPrefix(p, s) == Len(p) <= Len(s) /\ Take(s, Len(p)) = p

IsProperPrefix(p, s) == Len(p) < Len(s) /\ Take(s, Len(p)) = p

RECURSIVE SumLen(_, _, _)
\* seq.iter().map(|x| x.len()).sum::<usize>() for a per-element length L
SumLen(L(_), s, i) == IF i > Len(s) THEN 0 ELSE L(s[i]) + SumLen(L, s, i + 1)

RECURSIVE ConcatMap(_, _, _)
\* for x in seq { x.write(writer)? }
ConcatMap(W(_), s, i) == IF i > Len(s) THEN <<>> ELSE W(s[i]) \o ConcatMap(W, s, i + 1)

(***************************************************************************)
(* Values: peer headers, BGP messages, BMP messages                        *)
(***************************************************************************)
\* BmpPeerType::GlobalInstancePeer { ipv6, post_policy, asn2, adj_rib_out }
GlobalInstancePeer(ipv6, post_policy, asn2, adj_rib_out) ==
    [variant |-> "Global", ipv6 |-> ipv6, post_policy |-> post_policy,
     asn2 |-> asn2, adj_rib_out |-> adj_rib_out, filtered |-> FALSE]

\* Option<T>: Some(v) and None
Some(v) == [some |-> TRUE, v |-> v]

None == [some |-> FALSE, v |-> 0]

\* IpAddr::V6(fc00::n); an IpAddr::V4(10.0.0.n) has fam "V4"
V6(n) == [fam |-> "V6", n |-> n]

\* PeerHeader::new(peer_type, distinguisher, address, peer_as, bgp_id, timestamp):
\* distinguisher Option<u64>, address Option<IpAddr>, timestamp Option<seconds>
PeerHeader(peer_type, rd, address, peer_as, bgp_id, timestamp) ==
    [peer_type |-> peer_type, rd |-> rd, address |-> address,
     peer_as |-> peer_as, bgp_id |-> bgp_id, timestamp |-> timestamp]

\* AddPathAddressFamily and MultipleLabel entries of an Open's capabilities
AddPathFamily(address_type, send, receive) ==
    [address_type |-> address_type, send |-> send, receive |-> receive]

MultipleLabel(address_type, count) == [address_type |-> address_type, count |-> count]

\* BgpCapability::AddPath(AddPathCapability), ::MultipleLabels(Vec<MultipleLabel>)
\* and a capability of any other kind (FourOctetAs)
CapAddPath(families) == [cap |-> "AddPath", entries |-> families]

CapMultipleLabels(labels) == [cap |-> "MultipleLabels", entries |-> labels]

CapFourOctetAs == [cap |-> "FourOctetAs", entries |-> <<>>]

\* BgpMessage::Open(BgpOpenMessage) and BgpMessage::KeepAlive
BgpOpen(bgp_id, caps) == [type |-> "Open", bgp_id |-> bgp_id, caps |-> caps]

BgpKeepAlive == [type |-> "KeepAlive", bgp_id |-> 0, caps |-> <<>>]

\* InitiationInformation / TerminationInformation: a TLV (type code, value)
Information(code, value) == [code |-> code, value |-> value]

\* PeerDownNotificationReason: reason code, 2-octet FSM event, BGP PDU, TLV, raw data
Reason(code, fsm, pdu, info, data) ==
    [code |-> code, fsm |-> fsm, pdu |-> pdu, info |-> info, data |-> data]

NoPeer == PeerHeader(GlobalInstancePeer(FALSE, FALSE, FALSE, FALSE), None, None, 0, 0, None)

NoReason == Reason(0, 0, BgpKeepAlive, Information(0, <<>>), <<>>)

\* BmpMessage: the closed union of message kinds
BmpMsg(kind, ph, reason, sent, recv, info, data) ==
    [kind |-> kind, ph |-> ph, reason |-> reason, sent |-> sent, recv |-> recv,
     info |-> info, data |-> data]

\* RouteMonitoringMessage: peer header and the BGP updates
RouteMonitoring(ph, updates) ==
    BmpMsg("RouteMonitoring", ph, NoReason, BgpKeepAlive, BgpKeepAlive, updates, <<>>)

StatisticsReport == BmpMsg("StatisticsReport", NoPeer, NoReason, BgpKeepAlive, BgpKeepAlive, <<>>, <<>>)

PeerDownNotification(ph, reason) ==
    BmpMsg("PeerDownNotification", ph, reason, BgpKeepAlive, BgpKeepAlive, <<>>, <<>>)

\* PeerUpNotificationMessage::build(peer_header, local_address, local_port,
\* remote_port, sent_message, received_message, information);
\* local = <<local_address, local_port, remote_port>>
PeerUpNotification(ph, local, sent, recv, info) ==
    BmpMsg("PeerUpNotification", ph, NoReason, sent, recv, info, local)

Initiation(info) == BmpMsg("Initiation", NoPeer, NoReason, BgpKeepAlive, BgpKeepAlive, info, <<>>)

Termination(ph, info) == BmpMsg("Termination", ph, NoReason, BgpKeepAlive, BgpKeepAlive, info, <<>>)

\* RouteMirroringMessage: peer header and the mirrored values
RouteMirroring(ph, mirrored) ==
    BmpMsg("RouteMirroring", ph, NoReason, BgpKeepAlive, BgpKeepAlive, mirrored, <<>>)

\* BmpMessage::Experimental251(Vec<u8>) .. Experimental254(Vec<u8>)
Experimental251(data) ==
    BmpMsg("Experimental251", NoPeer, NoReason, BgpKeepAlive, BgpKeepAlive, <<>>, data)

ExperimentalKinds == {"Experimental251", "Experimental252", "Experimental253", "Experimental254"}

(***************************************************************************)
(* Wire codes (crate::iana, RFC 7854) and the BGP message serializer:      *)
(* collaborators of the serializer under study                             *)
(***************************************************************************)
\* BmpMessage::get_type().into()
BmpMessageType(m) ==
    CASE m.kind = "RouteMonitoring" -> 0
      [] m.kind = "StatisticsReport" -> 1
      [] m.kind = "PeerDownNotification" -> 2
      [] m.kind = "PeerUpNotification" -> 3
      [] m.kind = "Initiation" -> 4
      [] m.kind = "Termination" -> 5
      [] m.kind = "RouteMirroring" -> 6
      [] m.kind = "Experimental251" -> 251
      [] m.kind = "Experimental252" -> 252
      [] m.kind = "Experimental253" -> 253
      [] m.kind = "Experimental254" -> 254

\* BmpPeerType::get_type().into()
BmpPeerTypeCode(pt) == IF pt.variant = "LocRib" THEN 3 ELSE 0

\* AddressType -> (AFI, SAFI)
Afi(address_type) == IF address_type = "Ipv6Unicast" THEN 2 ELSE 1

Safi(address_type) == IF address_type = "Ipv4MplsLabeledVpn" THEN 128 ELSE 1

\* one capability as an optional-parameter TLV of a BGP Open
BgpCapability_write(c) ==
    LET fam(e) == Be16(Afi(e.address_type)) \o <<Safi(e.address_type)>>
        ap(e) == fam(e) \o <<(IF e.send THEN 2 ELSE 0) + (IF e.receive THEN 1 ELSE 0)>>
        ml(e) == fam(e) \o <<e.count>>
        body == CASE c.cap = "AddPath" -> ConcatMap(ap, c.entries, 1)
                  [] c.cap = "MultipleLabels" -> ConcatMap(ml, c.entries, 1)
                  [] OTHER -> Be32(64512)
        code == CASE c.cap = "AddPath" -> 69
                  [] c.cap = "MultipleLabels" -> 8
                  [] OTHER -> 65
    IN  <<2, Len(body) + 2, code, Len(body)>> \o body

\* BgpMessage::write: 16-octet marker, 2-octet length, type, body
BgpMessage_write(b) ==
    LET params == ConcatMap(BgpCapability_write, b.caps, 1)
        body == IF b.type = "Open"
                THEN <<4>> \o Be16(64512) \o Be16(180) \o Be32(b.bgp_id)
                     \o <<Len(params)>> \o params
                ELSE <<>>
    IN  Repeat(255, 16) \o Be16(19 + Len(body)) \o <<IF b.type = "Open" THEN 1 ELSE 4>>
        \o body

\* BgpMessage::len
BgpMessage_len(b) == Len(BgpMessage_write(b))

(***************************************************************************)
(* Two-pass length-prefixed encoder (serde/serializer/mod.rs)              *)
(***************************************************************************)
PEER_FLAGS_IS_IPV6 == 128

PEER_FLAGS_IS_POST_POLICY == 64

PEER_FLAGS_IS_ASN2 == 32

PEER_FLAGS_IS_ADJ_RIB_OUT == 16

PEER_FLAGS_IS_FILTERED == 128

BMP_VERSION == 3

BmpMessage_BASE_LENGTH == 5

PeerHeader_BASE_LENGTH == 42

RouteMonitoringMessage_BASE_LENGTH == 1

InitiationInformation_BASE_LENGTH == 4

PeerUpNotificationMessage_BASE_LENGTH == 21

PeerDownNotificationReason_BASE_LENGTH == 1

compute_peer_flags_value(ipv6, post_policy, asn2, adj_rib_out) ==
    (IF ipv6 THEN PEER_FLAGS_IS_IPV6 ELSE 0)
    + (IF post_policy THEN PEER_FLAGS_IS_POST_POLICY ELSE 0)
    + (IF asn2 THEN PEER_FLAGS_IS_ASN2 ELSE 0)
    + (IF adj_rib_out THEN PEER_FLAGS_IS_ADJ_RIB_OUT ELSE 0)

BmpPeerType_write(pt) ==
    U8(BmpPeerTypeCode(pt))
    \o (IF pt.variant = "LocRib"
        THEN U8(IF pt.filtered THEN PEER_FLAGS_IS_FILTERED ELSE 0)
        ELSE U8(compute_peer_flags_value(pt.ipv6, pt.post_policy, pt.asn2, pt.adj_rib_out)))

\* the 16 octets of an address field
IpAddr_write(a) ==
    IF a.fam = "V4" THEN Repeat(0, 8) \o Repeat(0, 4) \o <<10, 0, 0, a.n>>
    ELSE <<252, 0>> \o Repeat(0, 13) \o <<a.n>>

PeerHeader_len(ph) == PeerHeader_BASE_LENGTH

PeerHeader_write(ph) ==
    BmpPeerType_write(ph.peer_type)
    \o (IF ph.rd.some THEN Repeat(0, 4) \o Be32(ph.rd.v) ELSE Repeat(0, 8))
    \o (IF ph.address.some THEN IpAddr_write(ph.address.v) ELSE Repeat(0, 16))
    \o Be32(ph.peer_as)
    \o <<10, 0, 0, ph.bgp_id>>
    \o (IF ph.timestamp.some THEN Be32(ph.timestamp.v) \o Be32(0) ELSE Repeat(0, 8))

InitiationInformation_len(info) == InitiationInformation_BASE_LENGTH + Len(info.value)

\* a length field that saturates at 65535 instead of wrapping
InitiationInformation_write_saturating(info) ==
    Be16(info.code)
    \o Be16(IF Len(info.value) > 65535 THEN 65535 ELSE Len(info.value))
    \o info.value

\* the length field is `bytes.len() as u16`
InitiationInformation_write(info) ==
    Be16(info.code) \o Be16(Len(info.value) % 65536) \o info.value

InitiationMessage_len(m) == 0 + SumLen(InitiationInformation_len, m.info, 1)

InitiationMessage_write(m) == ConcatMap(InitiationInformation_write, m.info, 1)

RouteMonitoringMessage_len(m) ==
    RouteMonitoringMessage_BASE_LENGTH + PeerHeader_len(m.ph)
    + SumLen(BgpMessage_len, m.info, 1)

RouteMonitoringMessage_write(m) ==
    PeerHeader_write(m.ph) \o ConcatMap(BgpMessage_write, m.info, 1)

PeerUpNotificationMessage_len(m) ==
    PeerUpNotificationMessage_BASE_LENGTH + PeerHeader_len(m.ph)
    + BgpMessage_len(m.sent) + BgpMessage_len(m.recv)
    + SumLen(InitiationInformation_len, m.info, 1)

PeerUpNotificationMessage_write(m) ==
    PeerHeader_write(m.ph)
    \o IpAddr_write(m.data[1])
    \o Be16(m.data[2]) \o Be16(m.data[3])
    \o BgpMessage_write(m.sent) \o BgpMessage_write(m.recv)
    \o ConcatMap(InitiationInformation_write, m.info, 1)

PeerDownNotificationReason_len(r) ==
    PeerDownNotificationReason_BASE_LENGTH
    + CASE r.code \in {1, 3} -> BgpMessage_len(r.pdu)
        [] r.code = 2 -> 2
        [] r.code \in {4, 5} -> 0
        [] r.code = 6 -> InitiationInformation_len(r.info)
        [] OTHER -> Len(r.data)

PeerDownNotificationReason_write(r) ==
    U8(r.code)
    \o CASE r.code \in {1, 3} -> BgpMessage_write(r.pdu)
         [] r.code = 2 -> Be16(r.fsm)
         [] r.code \in {4, 5} -> <<>>
         [] r.code = 6 -> InitiationInformation_write(r.info)
         [] OTHER -> r.data

PeerDownNotificationMessage_len(m) ==
    0 + PeerHeader_len(m.ph) + PeerDownNotificationReason_len(m.reason)

PeerDownNotificationMessage_write(m) ==
    PeerHeader_write(m.ph) \o PeerDownNotificationReason_write(m.reason)

\* RouteMirroringValue::len is todo!(): it is reached for each mirrored value
RouteMirroringMessage_len(m) == 0 + PeerHeader_len(m.ph)

\* BmpMessage::len reaches a todo!()
BmpMessage_len_panics(m) ==
    \/ m.kind \in {"StatisticsReport", "Termination"}
    \/ m.kind = "RouteMirroring" /\ m.info # <<>>

\* BmpMessage::len, for a message on which it returns
BmpMessage_len(m) ==
    BmpMessage_BASE_LENGTH
    + CASE m.kind = "RouteMonitoring" -> RouteMonitoringMessage_len(m)
        [] m.kind = "PeerDownNotification" -> PeerDownNotificationMessage_len(m) + 1
        [] m.kind = "PeerUpNotification" -> PeerUpNotificationMessage_len(m)
        [] m.kind = "Initiation" -> InitiationMessage_len(m) + 1
        [] m.kind = "RouteMirroring" -> RouteMirroringMessage_len(m)
        [] m.kind \in ExperimentalKinds -> Len(m.data)
        [] OTHER -> 0

\* BmpMessage::write reaches a todo!(): in len() (line 65) or in
\* RouteMirroringMessage::write
BmpMessage_write_panics(m) == BmpMessage_len_panics(m) \/ m.kind = "RouteMirroring"

\* the bytes that the match over the message kinds writes after the header
BmpMessage_write_value(m) ==
    CASE m.kind = "RouteMonitoring" -> RouteMonitoringMessage_write(m)
      [] m.kind = "PeerDownNotification" -> PeerDownNotificationMessage_write(m)
      [] m.kind = "PeerUpNotification" -> PeerUpNotificationMessage_write(m)
      [] m.kind = "Initiation" -> InitiationMessage_write(m)
      [] m.kind \in ExperimentalKinds -> m.data
      [] OTHER -> <<>>

\* the bytes BmpMessage::write hands to the writer (up to the todo!() when
\* it reaches one): version, len() as u32, message type, value
BmpMessage_write(m) ==
    IF BmpMessage_len_panics(m) THEN U8(BMP_VERSION)
    ELSE U8(BMP_VERSION) \o Be32(BmpMessage_len(m)) \o U8(BmpMessageType(m))
         \o BmpMessage_write_value(m)

(***************************************************************************)
(* Session context store (codec.rs: BmpCodec.ctx, update_parsing_ctx)      *)
(***************************************************************************)
\* an empty HashMap
EmptyMap == [x \in {} |-> 0]

\* HashMap::insert(k, v)
MapInsert(map, k, v) == [x \in DOMAIN map \cup {k} |-> IF x = k THEN v ELSE map[x]]

\* a remove that leaves the entry in place
MapRemove_keeps(map, k) == map

\* a remove that empties the map when the key is absent
MapRemove_clears(map, k) ==
    IF k \in DOMAIN map THEN [x \in DOMAIN map \ {k} |-> map[x]] ELSE EmptyMap

\* HashMap::remove(k): removing an absent key changes nothing
MapRemove(map, k) == [x \in DOMAIN map \ {k} |-> map[x]]

\* BgpParsingContext::default(): no extension negotiated
DefaultContext == [add_path |-> EmptyMap, multiple_labels |-> EmptyMap]

\* PeerKey::new(address, peer_type, rd, peer_as, bgp_id)
PeerKey_new(address, peer_type, rd, peer_as, bgp_id) ==
    [address |-> address, peer_type |-> peer_type, rd |-> rd, peer_as |-> peer_as,
     bgp_id |-> bgp_id]

\* PeerKey::from_peer_header(header)
PeerKey_from_peer_header(ph) ==
    PeerKey_new(ph.address, ph.peer_type, ph.rd, ph.peer_as, ph.bgp_id)

RECURSIVE Flatten(_, _)
\* the entries of a list of capabilities, in order
Flatten(caps, i) == IF i > Len(caps) THEN <<>> ELSE caps[i].entries \o Flatten(caps, i + 1)

\* get_caps: the AddPath capabilities and the MultipleLabels capabilities
get_caps(capabilities) ==
    LET IsAddPath(c) == c.cap = "AddPath"
        IsMultipleLabels(c) == c.cap = "MultipleLabels"
    IN  [add_path_caps |-> SelectSeq(capabilities, IsAddPath),
         multiple_labels_caps |-> SelectSeq(capabilities, IsMultipleLabels)]

RECURSIVE InsertAddPath(_, _, _)
\* bgp_ctx.add_path_mut().insert(address_type, receive) for each family, in order
InsertAddPath(map, families, i) ==
    IF i > Len(families) THEN map
    ELSE InsertAddPath(MapInsert(map, families[i].address_type, families[i].receive),
                       families, i + 1)

RECURSIVE InsertLabels(_, _, _)
\* bgp_ctx.multiple_labels_mut().insert(address_type, count) for each label, in order
InsertLabels(map, labels, i) ==
    IF i > Len(labels) THEN map
    ELSE InsertLabels(MapInsert(map, labels[i].address_type, labels[i].count), labels, i + 1)

\* no clear: the maps of the earlier negotiation stay
ClearContext_keeps(bgp_ctx) == bgp_ctx

\* add_path_mut().clear(); multiple_labels_mut().clear()
ClearContext(bgp_ctx) == [bgp_ctx EXCEPT !.add_path = EmptyMap, !.multiple_labels = EmptyMap]

\* a negotiation that forgets every other entry of the store
NegotiateOpen_alone(store, peer_key, open) == MapInsert(EmptyMap, peer_key, DefaultContext)

\* one side of a PeerUp: entry(peer_key).or_default(), clear, insert the
\* families that the Open offers
NegotiateOpen(store, peer_key, open) ==
    LET caps == get_caps(open.caps)
        bgp_ctx == IF peer_key \in DOMAIN store THEN store[peer_key] ELSE DefaultContext
        cleared == ClearContext(bgp_ctx)
        filled == [cleared EXCEPT
                     !.add_path = InsertAddPath(@, Flatten(caps.add_path_caps, 1), 1),
                     !.multiple_labels =
                         InsertLabels(@, Flatten(caps.multiple_labels_caps, 1), 1)]
    IN  MapInsert(store, peer_key, filled)

\* the key of the received side: the peer header's fields with the Open's BGP id
ReceivedKey(ph, open) ==
    PeerKey_new(ph.address, ph.peer_type, ph.rd, ph.peer_as, open.bgp_id)

\* BmpCodec::update_parsing_ctx
update_parsing_ctx(store, msg) ==
    CASE msg.kind = "PeerDownNotification" -> MapRemove(store, PeerKey_from_peer_header(msg.ph))
      [] msg.kind = "Termination" -> MapRemove(store, PeerKey_from_peer_header(msg.ph))
      [] msg.kind = "PeerUpNotification" ->
            LET s1 == IF msg.sent.type = "Open"
                      THEN NegotiateOpen(store, PeerKey_from_peer_header(msg.ph), msg.sent)
                      ELSE store
            IN  IF msg.recv.type = "Open"
                THEN NegotiateOpen(s1, ReceivedKey(msg.ph, msg.recv), msg.recv)
                ELSE s1
      [] OTHER -> store

(***************************************************************************)
(* The values the model sends                                              *)
(***************************************************************************)
\* the peer header of tests::test_peer_key_add_remove
PH1 ==
    PeerHeader(GlobalInstancePeer(TRUE, FALSE, FALSE, FALSE), None, Some(V6(1)), 64512, 1,
               Some(1664821826))

\* the message of tests::test_codec: system description "test11", system
\* name "PE2"
M_Initiation ==
    Initiation(<<Information(1, <<116, 101, 115, 116, 49, 49>>),
                 Information(2, <<80, 69, 50>>)>>)

M_Experimental == Experimental251(<<7>>)

M_PeerDown == PeerDownNotification(PH1, Reason(2, 2, BgpKeepAlive, Information(0, <<>>), <<>>))

M_PeerUp ==
    PeerUpNotification(PH1, <<V6(3), 179, 29834>>,
        BgpOpen(3, <<CapFourOctetAs,
                     CapAddPath(<<AddPathFamily("Ipv4Unicast", TRUE, TRUE)>>)>>),
        BgpOpen(1, <<CapMultipleLabels(<<MultipleLabel("Ipv6Unicast", 2)>>)>>),
        <<>>)

M_RouteMonitoring == RouteMonitoring(PH1, <<>>)

\* the termination message of tests::test_peer_key_add_remove: string "test"
M_Termination == Termination(PH1, <<Information(0, <<116, 101, 115, 116>>)>>)

M_RouteMirroring == RouteMirroring(PH1, <<>>)

\* the messages handed to the encoder
Messages ==
    {M_Initiation, M_Experimental, M_PeerDown, M_PeerUp, M_RouteMonitoring,
     M_Termination, M_RouteMirroring, StatisticsReport}

(***************************************************************************)
(* The message-body decoder BmpMessage::from_wire (wire/deserializer), the *)
(* collaborator that BmpCodec::decode calls                                *)
(***************************************************************************)
\* BmpVersion::try_from(version).is_ok()
BmpVersion_ok(version) == version = BMP_VERSION

\* the value bytes (message type, body) of a well-formed frame of m
WireValue(m) ==
    U8(BmpMessageType(m))
    \o CASE m.kind = "Termination" ->
              PeerHeader_write(m.ph) \o ConcatMap(InitiationInformation_write, m.info, 1)
         [] m.kind = "RouteMirroring" -> PeerHeader_write(m.ph)
         [] m.kind = "StatisticsReport" -> PeerHeader_write(m.ph) \o Be32(0)
         [] OTHER -> BmpMessage_write_value(m)

\* a well-formed frame: version, total length, value
Frame(value) == U8(BMP_VERSION) \o Be32(BmpMessage_BASE_LENGTH + Len(value)) \o value

\* the messages with a peer header that the body decoder recognises
PeerMessages == {M_PeerDown, M_PeerUp, M_RouteMonitoring, M_Termination}

WireTable == [m \in PeerMessages |-> WireValue(m)]

InformationCodes == {0, 1, 2, 3, 4, 65531, 65532, 65533, 65534}

RECURSIVE ParseInformation(_)
\* the information TLVs of a value, until the bytes are used up
ParseInformation(bytes) ==
    IF bytes = <<>> THEN [tag |-> "Ok", info |-> <<>>]
    ELSE IF Len(bytes) < 4 THEN [tag |-> "Incomplete", info |-> <<>>]
    ELSE LET code == ReadU16(SubSeq(bytes, 1, 2))
             length == ReadU16(SubSeq(bytes, 3, 4))
         IN  IF code \notin InformationCodes THEN [tag |-> "Error", info |-> <<>>]
             ELSE IF Len(bytes) < 4 + length THEN [tag |-> "Incomplete", info |-> <<>>]
             ELSE LET rest == ParseInformation(Drop(bytes, 4 + length))
                  IN  IF rest.tag # "Ok" THEN rest
                      ELSE [tag |-> "Ok",
                            info |-> <<Information(code, SubSeq(bytes, 5, 4 + length))>>
                                     \o rest.info]

\* the result of a parser: Ok((span at offset, msg)), Err(Error(err)) or
\* Err(Incomplete(needed)), and the context store it leaves
ParseResult(tag, offset, msg, err, needed, store) ==
    [tag |-> tag, offset |-> offset, msg |-> msg, err |-> err, needed |-> needed,
     store |-> store]

\* lookup_or_default(key): the existing context, or a fresh default one inserted
LookupOrDefault(store, key) ==
    IF key \in DOMAIN store THEN store ELSE MapInsert(store, key, DefaultContext)

\* the store after the decoder of a route-monitoring body has read the peer
\* header: it resolves the context of the peer before it reads the updates
ResolveContext(value, store) ==
    IF value # <<>> /\ value[1] = 0 /\ Len(value) >= 1 + PeerHeader_BASE_LENGTH
       /\ SubSeq(value, 2, 1 + PeerHeader_BASE_LENGTH) = PeerHeader_write(PH1)
    THEN LookupOrDefault(store, PeerKey_from_peer_header(PH1))
    ELSE store

\* the kinds that start with a peer header: the message whose value bytes
\* these are, Incomplete on a proper prefix of one, else an error
PeerMessage_from_wire(value, length, st, table) ==
    IF \E m \in DOMAIN table : table[m] = value
    THEN ParseResult("Ok", length, CHOOSE m \in DOMAIN table : table[m] = value, "", None, st)
    ELSE IF \E m \in DOMAIN table : IsProperPrefix(value, table[m])
    THEN ParseResult("Incomplete", 0, StatisticsReport, "", None, st)
    ELSE ParseResult("Error", 0, StatisticsReport, "MessageValueError", None, st)

\* BmpMessageValue::from_wire on the value bytes of a frame
BmpMessageValue_from_wire(value, length, store) ==
    IF value = <<>> THEN ParseResult("Incomplete", 0, StatisticsReport, "", Some(1), store)
    ELSE IF value[1] \in 251..254
    THEN ParseResult("Ok", length,
             BmpMsg(CASE value[1] = 251 -> "Experimental251" [] value[1] = 252 -> "Experimental252"
                      [] value[1] = 253 -> "Experimental253" [] OTHER -> "Experimental254",
                    NoPeer, NoReason, BgpKeepAlive, BgpKeepAlive, <<>>, Drop(value, 1)),
             "", None, store)
    ELSE IF value[1] = 4
    THEN LET r == ParseInformation(Drop(value, 1))
         IN  CASE r.tag = "Ok" -> ParseResult("Ok", length, Initiation(r.info), "", None, store)
               [] r.tag = "Incomplete" ->
                     ParseResult("Incomplete", 0, StatisticsReport, "", None, store)
               [] OTHER ->
                     ParseResult("Error", 0, StatisticsReport, "InitiationMessageError", None, store)
    ELSE IF value[1] \in {0, 1, 2, 3, 5, 6}
    THEN PeerMessage_from_wire(value, length, ResolveContext(value, store), WireTable)
    ELSE ParseResult("Error", 0, StatisticsReport, "UndefinedBmpMessageType", None, store)

\* BmpMessage::from_wire(span, ctx): the version, the 4-octet length, then
\* the value inside the length - 5 octets that follow; the returned span
\* starts `length` octets into the input
BmpMessage_from_wire(span, store) ==
    LET length == ReadU32(SubSeq(span, 2, 5))
    IN  IF length < BmpMessage_BASE_LENGTH
        THEN ParseResult("Error", 0, StatisticsReport, "InvalidBmpLength", None, store)
        ELSE IF Len(span) < length
        THEN ParseResult("Incomplete", 0, StatisticsReport, "", Some(length - Len(span)), store)
        ELSE BmpMessageValue_from_wire(SubSeq(span, 6, length), length, store)

(***************************************************************************)
(* IPFIX parsers (netgauze-ipfix-pkt/src/wire/deserializer/mod.rs)         *)
(***************************************************************************)
\* 2-octets version, 2-octets length, 4-octets * 3
IPFIX_HEADER_LENGTH == 16

IPFIX_VERSION == 10

\* the result of a parser: Ok((rest, val)), Err(Error(err(arg))), a todo!()
\* reached (Panic), or a loop that never ends (Diverges)
Parsed(rest, val) == [tag |-> "Ok", rest |-> rest, val |-> val, err |-> "", arg |-> 0]

Failed(err, arg) == [tag |-> "Error", rest |-> <<>>, val |-> <<>>, err |-> err, arg |-> arg]

Aborted == [tag |-> "Panic", rest |-> <<>>, val |-> <<>>, err |-> "", arg |-> 0]

Diverged == [tag |-> "Diverges", rest |-> <<>>, val |-> <<>>, err |-> "", arg |-> 0]

\* the error of nom's be_u16 / be_u32 / take on too few bytes
NomEof == Failed("NomError", 0)

\* the registry of information elements: (enterprise number, code) -> the
\* registered length range, or no range; <<lo, hi>> is lo..hi
KnownElements ==
    [pen : {0}, code : {1, 4, 8, 82}]

\* InformationElementId::try_from((pen, code)): an element of an enterprise
\* is kept as an opaque element, an unregistered IANA code is an error
InformationElementId_ok(pen, code) ==
    pen # 0 \/ [pen |-> pen, code |-> code] \in KnownElements

\* InformationElementId::length_range()
length_range(ie) ==
    CASE ie.pen = 0 /\ ie.code = 1 -> Some(<<1, 8>>)
      [] ie.pen = 0 /\ ie.code = 4 -> Some(<<1, 1>>)
      [] ie.pen = 0 /\ ie.code = 8 -> Some(<<4, 4>>)
      [] OTHER -> None

\* FieldSpecifier::new(element_id, length)
FieldSpecifier(pen, code, length) ==
    [element_id |-> [pen |-> pen, code |-> code], length |-> length]

\* IpfixHeader::from_wire
IpfixHeader_from_wire(b) ==
    IF Len(b) < 2 THEN NomEof
    ELSE IF ReadU16(Take(b, 2)) # IPFIX_VERSION
    THEN Failed("UnsupportedVersion", ReadU16(Take(b, 2)))
    ELSE IF Len(b) < 4 THEN NomEof
    ELSE IF ReadU16(SubSeq(b, 3, 4)) < IPFIX_HEADER_LENGTH
    THEN Failed("InvalidLength", ReadU16(SubSeq(b, 3, 4)))
    ELSE IF Len(b) < 16 THEN NomEof
    ELSE Parsed(Drop(b, 16),
                [export_time |-> SubSeq(b, 5, 8), seq_number |-> SubSeq(b, 9, 12),
                 observation_domain_id |-> SubSeq(b, 13, 16)])

\* a range check that refuses an element with no registered range
\* (unwrap_or(false))
LengthAllowed_needs_range(range, length) ==
    range.some /\ (range.v[1] <= length /\ length <= range.v[2])

\* a range check that leaves out the two ends of the range
LengthAllowed_exclusive(range, length) ==
    ~range.some \/ (range.v[1] < length /\ length < range.v[2])

\* length_range().as_ref().map(|x| x.contains(&length)).unwrap_or(true)
LengthAllowed(range, length) ==
    ~range.some \/ (range.v[1] <= length /\ length <= range.v[2])

\* a parser that reads the enterprise number before the declared length
FieldSpecifier_from_wire_pen_first(b) ==
    IF Len(b) < 2 THEN NomEof
    ELSE LET code == ReadU16(Take(b, 2))
             is_enterprise == code >= 32768
         IN  IF Len(b) < (IF is_enterprise THEN 8 ELSE 4) THEN NomEof
             ELSE LET pen == IF is_enterprise THEN ReadU32(SubSeq(b, 3, 6)) ELSE 0
                      length == IF is_enterprise THEN ReadU16(SubSeq(b, 7, 8))
                                ELSE ReadU16(SubSeq(b, 3, 4))
                      rest == IF is_enterprise THEN Drop(b, 8) ELSE Drop(b, 4)
                  IN  IF ~InformationElementId_ok(pen, code)
                      THEN Failed("InformationElementIdError", code)
                      ELSE IF ~LengthAllowed(length_range([pen |-> pen, code |-> code]), length)
                      THEN Failed("InvalidLength", length)
                      ELSE Parsed(rest, FieldSpecifier(pen, code, length))

\* FieldSpecifier::from_wire: the code, the length, then the enterprise
\* number when the top bit of the code is set
FieldSpecifier_from_wire(b) ==
    IF Len(b) < 4 THEN NomEof
    ELSE LET code == ReadU16(Take(b, 2))
             is_enterprise == code >= 32768
             length == ReadU16(SubSeq(b, 3, 4))
         IN  IF is_enterprise /\ Len(b) < 8 THEN NomEof
             ELSE LET pen == IF is_enterprise THEN ReadU32(SubSeq(b, 5, 8)) ELSE 0
                      rest == IF is_enterprise THEN Drop(b, 8) ELSE Drop(b, 4)
                      ie == [pen |-> pen, code |-> code]
                      range == length_range(ie)
                  IN  IF ~InformationElementId_ok(pen, code)
                      THEN Failed("InformationElementIdError", code)
                      ELSE IF ~LengthAllowed(range, length)
                      THEN Failed("InvalidLength", length)
                      ELSE Parsed(rest, FieldSpecifier(pen, code, length))

\* ie::Record::from_wire(buf, element_id, length): the `length` octets of
\* the value of one field
Record_from_wire(b, ie, length) ==
    IF Len(b) < length THEN Failed("RecordError", length)
    ELSE Parsed(Drop(b, length), [element_id |-> ie, value |-> Take(b, length)])

RECURSIVE FlowRecords(_, _, _)
\* for field in fields { parse a record; buf = t; records.push(record) }
FlowRecords(b, fields, i) ==
    IF i > Len(fields) THEN Parsed(b, <<>>)
    ELSE LET r == Record_from_wire(b, fields[i].element_id, fields[i].length)
         IN  IF r.tag # "Ok" THEN r
             ELSE LET more == FlowRecords(r.rest, fields, i + 1)
                  IN  IF more.tag # "Ok" THEN more
                      ELSE Parsed(more.rest, <<r.val>> \o more.val)

\* Flow::from_wire(buf, fields)
Flow_from_wire(b, fields) == FlowRecords(b, fields, 1)

RECURSIVE TemplateFields(_, _)
\* for _ in 0..field_count { parse a field specifier }
TemplateFields(b, count) ==
    IF count = 0 THEN Parsed(b, <<>>)
    ELSE LET r == FieldSpecifier_from_wire(b)
         IN  IF r.tag # "Ok" THEN r
             ELSE LET more == TemplateFields(r.rest, count - 1)
                  IN  IF more.tag # "Ok" THEN more
                      ELSE Parsed(more.rest, <<r.val>> \o more.val)

\* a parser that refuses template id 256 as well
TemplateRecord_from_wire_above_256(b) ==
    IF Len(b) < 2 THEN NomEof
    ELSE LET template_id == ReadU16(Take(b, 2))
         IN  IF template_id <= 256 THEN Failed("InvalidTemplateId", template_id)
             ELSE IF Len(b) < 4 THEN NomEof
             ELSE LET r == TemplateFields(Drop(b, 4), ReadU16(SubSeq(b, 3, 4)))
                  IN  IF r.tag # "Ok" THEN r
                      ELSE Parsed(r.rest, [id |-> template_id, fields |-> r.val])

\* TemplateRecord::from_wire
TemplateRecord_from_wire(b) ==
    IF Len(b) < 2 THEN NomEof
    ELSE LET template_id == ReadU16(Take(b, 2))
         IN  IF template_id < 256 THEN Failed("InvalidTemplateId", template_id)
             ELSE IF Len(b) < 4 THEN NomEof
             ELSE LET r == TemplateFields(Drop(b, 4), ReadU16(SubSeq(b, 3, 4)))
                  IN  IF r.tag # "Ok" THEN r
                      ELSE Parsed(r.rest, [id |-> template_id, fields |-> r.val])

RECURSIVE DataFlows(_, _, _)
\* while buf.len() > padding { parse a flow; buf = t }: a flow that
\* consumes nothing leaves the loop condition as it was
DataFlows(b, fields, padding) ==
    IF ~(Len(b) > padding) THEN Parsed(b, <<>>)
    ELSE LET r == Flow_from_wire(b, fields)
         IN  IF r.tag # "Ok" THEN r
             ELSE IF Len(r.rest) = Len(b) THEN Diverged
             ELSE LET more == DataFlows(r.rest, fields, padding)
                  IN  IF more.tag # "Ok" THEN more
                      ELSE Parsed(more.rest, <<r.val>> \o more.val)

\* DataRecord::from_wire(buf, fields, padding)
DataRecord_from_wire(b, fields, padding) ==
    IF Len(b) < 4 THEN NomEof
    ELSE LET id == ReadU16(Take(b, 2))
             length == ReadU16(SubSeq(b, 3, 4))
         IN  IF Len(b) < 4 + length THEN NomEof
             ELSE LET reminder == Drop(b, 4 + length)
                      flows == DataFlows(SubSeq(b, 5, 4 + length), fields, padding)
                  IN  IF flows.tag # "Ok" THEN flows
                      ELSE IF Len(reminder) < padding THEN NomEof
                      ELSE Parsed(Drop(reminder, padding), [id |-> id, flows |-> flows.val])

RECURSIVE TemplatesTillEmpty(_)
\* parse_till_empty_into_located: template records until the span is empty
TemplatesTillEmpty(b) ==
    IF b = <<>> THEN Parsed(b, <<>>)
    ELSE LET r == TemplateRecord_from_wire(b)
         IN  IF r.tag # "Ok" THEN r
             ELSE LET more == TemplatesTillEmpty(r.rest)
                  IN  IF more.tag # "Ok" THEN more
                      ELSE Parsed(more.rest, <<r.val>> \o more.val)

RECURSIVE DataTillEmpty(_, _, _)
\* parse_till_empty_into_with_two_inputs_located: data records until the
\* span is empty
DataTillEmpty(b, fields, padding) ==
    IF b = <<>> THEN Parsed(b, <<>>)
    ELSE LET r == DataRecord_from_wire(b, fields, padding)
         IN  IF r.tag # "Ok" THEN r
             ELSE LET more == DataTillEmpty(r.rest, fields, padding)
                  IN  IF more.tag # "Ok" THEN more
                      ELSE Parsed(more.rest, <<r.val>> \o more.val)

\* line 239: `id >= 4 || id <= 255`
IsInvalidSetId(id) == id >= 4 \/ id <= 255

\* a parser that takes the declared length as the length of the payload
\* alone, without the 4 octets of the set header
Set_from_wire_payload_length(b, fields) ==
    IF Len(b) < 4 THEN NomEof
    ELSE LET id == ReadU16(Take(b, 2))
             length == ReadU16(SubSeq(b, 3, 4))
         IN  IF length < 4 THEN Failed("InvalidLength", length)
             ELSE IF Len(b) < 4 + length THEN NomEof
             ELSE LET reminder == Drop(b, 4 + length)
                      inner == SubSeq(b, 5, 4 + length)
                  IN  IF id = 2
                      THEN LET r == TemplatesTillEmpty(inner)
                           IN  IF r.tag # "Ok" THEN r
                               ELSE Parsed(reminder,
                                        [id |-> id, payload |-> "Template", items |-> r.val])
                      ELSE IF id = 3 THEN Aborted
                      ELSE IF id = 0 \/ id = 1 THEN Aborted
                      ELSE Failed("InvalidSetId", id)

\* Set::from_wire(buf, fields): fields is Option<&[FieldSpecifier]>
Set_from_wire(b, fields) ==
    IF Len(b) < 4 THEN NomEof
    ELSE LET id == ReadU16(Take(b, 2))
             length == ReadU16(SubSeq(b, 3, 4))
         IN  IF length < 4 THEN Failed("InvalidLength", length)
             ELSE IF Len(b) < length THEN NomEof
             ELSE LET reminder == Drop(b, length)
                      inner == SubSeq(b, 5, length)
                  IN  IF id = 2
                      THEN LET r == TemplatesTillEmpty(inner)
                           IN  IF r.tag # "Ok" THEN r
                               ELSE Parsed(reminder,
                                        [id |-> id, payload |-> "Template", items |-> r.val])
                      ELSE IF id = 3 THEN Aborted
                      ELSE IF id = 0 \/ id = 1 THEN Aborted
                      ELSE IF IsInvalidSetId(id) THEN Failed("InvalidSetId", id)
                      ELSE IF fields.some
                      THEN LET r == DataTillEmpty(inner, fields.v, 0)
                           IN  IF r.tag # "Ok" THEN r
                               ELSE Parsed(reminder,
                                        [id |-> id, payload |-> "Data", items |-> r.val])
                      ELSE Failed("FieldSpecifierIsNotDefined", 0)

(***************************************************************************)
(* The ORIGIN path attribute codec of netgauze-bgp-pkt, as                 *)
(* serde/tests/path_attribute.rs exercises it                              *)
(***************************************************************************)
\* Origin::IGP, Origin::EGP, Origin::Incomplete
Origins == {"IGP", "EGP", "Incomplete"}

\* the code of an origin on the wire
Origin_code(o) ==
    CASE o = "IGP" -> 0
      [] o = "EGP" -> 1
      [] o = "Incomplete" -> 2

\* a value of two octets
ORIGIN_LEN_two == 1 + 1

\* the length of the value of an ORIGIN attribute
ORIGIN_LEN == 1

\* Ok((rest, origin)) or a located error: the error, its argument and the
\* offset in the input of the span it is located at
OriginParsed(rest, val) ==
    [tag |-> "Ok", rest |-> rest, val |-> val, err |-> "", arg |-> 0, at |-> 0]

OriginFailed(err, arg, at) ==
    [tag |-> "Error", rest |-> <<>>, val |-> "", err |-> err, arg |-> arg, at |-> at]

\* Origin::try_from(code) is Err(UndefinedOrigin(code))
UndefinedOrigin(code) == code \notin {Origin_code(o) : o \in Origins}

\* Origin::from_wire(buf, extended_length): the length in one octet (two when
\* extended), which must be ORIGIN_LEN, then the code in one octet
Origin_from_wire(b, extended_length) ==
    LET width == IF extended_length THEN 2 ELSE 1
    IN  IF Len(b) < width THEN OriginFailed("NomError", 0, 0)
        ELSE LET length == IF extended_length THEN ReadU16(Take(b, 2)) ELSE b[1]
             IN  IF length # ORIGIN_LEN THEN OriginFailed("InvalidOriginLength", length, 0)
                 ELSE IF Len(b) < width + 1 THEN OriginFailed("NomError", 0, width)
                 ELSE IF UndefinedOrigin(b[width + 1])
                 THEN OriginFailed("UndefinedOrigin", b[width + 1], width)
                 ELSE OriginParsed(Drop(b, width + 1),
                                   CHOOSE o \in Origins : Origin_code(o) = b[width + 1])

\* Origin::write(writer, extended_length): the length, then the code
Origin_write(o, extended_length) ==
    (IF extended_length THEN Be16(ORIGIN_LEN) ELSE U8(ORIGIN_LEN)) \o U8(Origin_code(o))

(***************************************************************************)
(* The stream codec (codec.rs): state                                      *)
(***************************************************************************)
VARIABLES
    wire,        \* bytes written by an encoder or a remote peer, not yet received
    buf,         \* the BytesMut handed to decode: received and not yet consumed
    in_message,  \* BmpCodec.in_message
    ctx,         \* BmpCodec.ctx: PeerKey -> BgpParsingContext
    nitems,      \* number of writes to the stream so far
    panicked,    \* a todo!(), an index or an advance out of bounds was reached
    last,        \* the last call: its inputs and what it returned
    ipfix_in,    \* the bytes handed to an IPFIX parser
    ipfix_fields,\* the field specifiers known for the set: Option<&[FieldSpecifier]>
    ipfix_out,   \* the parser applied and what it returned
    origin_in,   \* the bytes of an ORIGIN path attribute from its length on
    origin_ext,  \* the extended_length input of the ORIGIN codec
    origin_out   \* the ORIGIN operation applied and what it returned

codecVars == <<wire, buf, in_message, ctx, nitems, panicked, last>>

ipfixVars == <<ipfix_in, ipfix_fields, ipfix_out>>

originVars == <<origin_in, origin_ext, origin_out>>

vars == <<wire, buf, in_message, ctx, nitems, panicked, last, ipfix_in, ipfix_fields,
          ipfix_out, origin_in, origin_ext, origin_out>>

\* Min length for a valid BMP Message: 1-octet version + 4-octet length
BMP_MESSAGE_MIN_LENGTH == 5

\* the record of a call; for decode: the buffer, flag and store before the
\* call, the returned value (tag None / Some / Err), the span handed to the
\* body decoder and the declared length; for encode: the message, len() and
\* the bytes appended
NoCall ==
    [op |-> "init", pre |-> <<>>, pre_in |-> FALSE, pre_ctx |-> EmptyMap, tag |-> "-",
     msg |-> StatisticsReport, err |-> "", needed |-> None, span |-> <<>>,
     called |-> FALSE, length |-> 0, written |-> <<>>]

\* bytes a remote peer may send: malformed headers and bodies, and a frame
\* that promises more than it holds
HostileChunks ==
    { <<3, 0, 0, 0, 4, 9>>,              \* declared length below the header size
      <<3, 0, 0, 0, 6, 99>>,             \* an undefined message type
      <<3, 0, 0, 0, 9, 4>> }             \* three octets short of the declared length

(***************************************************************************)
(* Encoder<BmpMessage> for BmpCodec                                        *)
(***************************************************************************)
\* encode(bmp_msg, dst): dst.reserve(bmp_msg.len()); bmp_msg.write(dst.writer())
Encode(m) ==
    /\ ~panicked
    /\ nitems < MaxItems
    /\ nitems' = nitems + 1
    /\ IF BmpMessage_len_panics(m)
       THEN /\ wire' = wire
            /\ panicked' = TRUE
            /\ last' = [NoCall EXCEPT !.op = "encode", !.msg = m, !.tag = "Panic"]
       ELSE /\ wire' = wire \o BmpMessage_write(m)
            /\ panicked' = BmpMessage_write_panics(m)
            /\ last' = [NoCall EXCEPT !.op = "encode", !.msg = m,
                          !.tag = IF BmpMessage_write_panics(m) THEN "Panic" ELSE "Ok",
                          !.length = BmpMessage_len(m),
                          !.written = BmpMessage_write(m)]
    /\ UNCHANGED <<buf, in_message, ctx>>
    /\ UNCHANGED ipfixVars
    /\ UNCHANGED originVars

\* a remote peer writes bytes of its own to the stream
Inject(chunk) ==
    /\ ~panicked
    /\ nitems < MaxItems
    /\ nitems' = nitems + 1
    /\ wire' = wire \o chunk
    /\ last' = [NoCall EXCEPT !.op = "inject"]
    /\ UNCHANGED <<buf, in_message, ctx, panicked>>
    /\ UNCHANGED ipfixVars
    /\ UNCHANGED originVars

\* the transport appends the next n bytes of the stream to the buffer; a
\* chunk of any size is a run of one-byte steps with no decode call between
Feed(n) ==
    /\ ~panicked
    /\ n \in 1..Len(wire)
    /\ buf' = buf \o Take(wire, n)
    /\ wire' = Drop(wire, n)
    /\ last' = [NoCall EXCEPT !.op = "feed"]
    /\ UNCHANGED <<in_message, ctx, nitems, panicked>>
    /\ UNCHANGED ipfixVars
    /\ UNCHANGED originVars

(***************************************************************************)
(* Decoder for BmpCodec                                                    *)
(***************************************************************************)
\* a header looked at as soon as one octet is buffered
HeaderLookedAt_any_octet(in_msg, b) == in_msg \/ Len(b) >= 1

\* line 180: a header is looked at
HeaderLookedAt(in_msg, b) == in_msg \/ Len(b) >= BMP_MESSAGE_MIN_LENGTH

\* a skip of the version and one more octet
VersionSkip_two == 1 + 1

\* no skip at all
VersionSkip_none == 1 - 1

\* line 184: buf.advance(1) on an undefined version
VersionSkip == 1

\* a comparison that is off by one: a frame that is exactly whole waits
FrameIncomplete_off_by_one(b, length) == Len(b) <= length

\* line 191: the frame is not whole yet
FrameIncomplete(b, length) == Len(b) < length

\* line 197: the span handed to the body decoder, Span::new(buf)
BodySpan(b, length) == b

\* an advance by the length of the value alone, without the header
SuccessAdvance_value_only(r) == r.offset - BMP_MESSAGE_MIN_LENGTH

\* line 200: buf.advance(span.location_offset())
SuccessAdvance(r) == r.offset

\* a skip by the declared length, not clamped to the header size
ErrorSkip_unclamped(length) == length

\* line 220: buf.advance(if length < 5 { 5 } else { length })
ErrorSkip(length) == IF length < 5 THEN 5 ELSE length

\* an error value that never carries the needed size
DecoderError_drops_hint(r) ==
    IF r.tag = "Incomplete" THEN [tag |-> "Err", err |-> "Incomplete", needed |-> None]
    ELSE [tag |-> "Err", err |-> r.err, needed |-> None]

\* lines 204-215: the error value of a failed body decode
DecoderError(r) ==
    IF r.tag = "Incomplete" THEN [tag |-> "Err", err |-> "Incomplete", needed |-> r.needed]
    ELSE [tag |-> "Err", err |-> r.err, needed |-> None]

\* what a decode call returns and the state it leaves
Outcome(tag, msg, err, needed, b, in_msg, store, span, called, length) ==
    [tag |-> tag, msg |-> msg, err |-> err, needed |-> needed, buf |-> b,
     in_message |-> in_msg, ctx |-> store, span |-> span, called |-> called,
     length |-> length]

Panic(b, in_msg, store) ==
    Outcome("Panic", StatisticsReport, "", None, b, in_msg, store, <<>>, FALSE, 0)

\* a wait that does not record that a frame is in progress
AwaitFrame_forgets_flag(b, store, length) ==
    Outcome("None", StatisticsReport, "", None, b, FALSE, store, <<>>, FALSE, length)

\* a wait that consumes the header it has read
AwaitFrame_consumes_header(b, store, length) ==
    Outcome("None", StatisticsReport, "", None, Drop(b, BMP_MESSAGE_MIN_LENGTH), TRUE, store,
            <<>>, FALSE, length)

\* lines 191-194: self.in_message = true; Ok(None)
AwaitFrame(b, store, length) ==
    Outcome("None", StatisticsReport, "", None, b, TRUE, store, <<>>, FALSE, length)

\* a store that a failed body decode empties
StoreAfter_forgets(r) == IF r.tag = "Ok" THEN update_parsing_ctx(r.store, r.msg) ELSE EmptyMap

\* lines 198-203: self.update_parsing_ctx(&msg) in the Ok arm only; the
\* Err arm leaves the store as the body decoder left it
StoreAfter(r) == IF r.tag = "Ok" THEN update_parsing_ctx(r.store, r.msg) ELSE r.store

\* lines 198-222: the match on the result r of the body decoder
FrameOutcome(b, length, span, r) ==
    IF r.tag = "Ok"
    THEN IF SuccessAdvance(r) > Len(b) THEN Panic(b, FALSE, r.store)
         ELSE Outcome("Some", r.msg, "", None, Drop(b, SuccessAdvance(r)), FALSE,
                      StoreAfter(r), span, TRUE, length)
    ELSE IF ErrorSkip(length) > Len(b) THEN Panic(b, FALSE, r.store)
         ELSE Outcome("Err", StatisticsReport, DecoderError(r).err, DecoderError(r).needed,
                      Drop(b, ErrorSkip(length)), FALSE, StoreAfter(r), span, TRUE, length)

\* lines 195-224: the whole frame is buffered
DecodeFrame(b, store, length) ==
    FrameOutcome(b, length, BodySpan(b, length),
                 BmpMessage_from_wire(BodySpan(b, length), store))

\* BmpCodec::decode(buf)
decode(b, in_msg, store) ==
    IF HeaderLookedAt(in_msg, b)
    THEN IF Len(b) = 0 THEN Panic(b, in_msg, store)
         ELSE IF ~BmpVersion_ok(b[1])
         THEN IF VersionSkip > Len(b) THEN Panic(b, in_msg, store)
              ELSE Outcome("Err", StatisticsReport, "UndefinedBmpVersion", None,
                           Drop(b, VersionSkip), in_msg, store, <<>>, FALSE, 0)
         ELSE IF Len(b) < BMP_MESSAGE_MIN_LENGTH THEN Panic(b, in_msg, store)
         ELSE LET length == ReadU32(SubSeq(b, 2, BMP_MESSAGE_MIN_LENGTH))
              IN  IF FrameIncomplete(b, length)
                  THEN AwaitFrame(b, store, length)
                  ELSE DecodeFrame(b, store, length)
    ELSE Outcome("None", StatisticsReport, "", None, b, in_msg, store, <<>>, FALSE, 0)

Decode ==
    /\ ~panicked
    /\ \E o \in {decode(buf, in_message, ctx)} :
           /\ buf' = o.buf
           /\ in_message' = o.in_message
           /\ ctx' = o.ctx
           /\ panicked' = (o.tag = "Panic")
           /\ last' = [NoCall EXCEPT !.op = "decode", !.pre = buf, !.pre_in = in_message,
                         !.pre_ctx = ctx, !.tag = o.tag, !.msg = o.msg, !.err = o.err,
                         !.needed = o.needed, !.span = o.span, !.called = o.called,
                         !.length = o.length]
    /\ UNCHANGED <<wire, nitems>>
    /\ UNCHANGED ipfixVars
    /\ UNCHANGED originVars

\* BmpCodec::default(), an empty stream
CodecInit ==
    /\ wire = <<>>
    /\ buf = <<>>
    /\ in_message = FALSE
    /\ ctx = EmptyMap
    /\ nitems = 0
    /\ panicked = FALSE
    /\ last = NoCall

NotParsed == [op |-> "none", res |-> Failed("", 0)]

OriginNotParsed == [op |-> "none", res |-> OriginFailed("", 0, 0), written |-> <<>>]

\* no ORIGIN attribute handed to the codec
OriginIdle ==
    /\ origin_in = <<>>
    /\ origin_ext = FALSE
    /\ origin_out = OriginNotParsed

Init ==
    /\ CodecInit
    /\ ipfix_in = <<>>
    /\ ipfix_fields = [some |-> FALSE, v |-> <<>>]
    /\ ipfix_out = NotParsed
    /\ OriginIdle

Next ==
    \/ \E m \in Messages : Encode(m)
    \/ \E chunk \in HostileChunks : Inject(chunk)
    \/ \E n \in {1, Len(wire)} : Feed(n)
    \/ Decode

Spec == Init /\ [][Next]_vars

(***************************************************************************)
(* The IPFIX parsers applied to bounded inputs                             *)
(***************************************************************************)
\* set ids: Netflow (0, 1), template (2), options template (3), reserved
\* (4..255), data (256 and above)
SetIds == {0, 1, 2, 3, 4, 255, 256, 300}

DeclaredLengths == {3, 4, 8, 12, 13}

\* a template record (id 256, one field: element 1, length 4), a data record
\* (id 256, length 4, one 4-octet flow), a 4-octet flow followed by one
\* octet of padding, field specifiers (two of them of an enterprise, the
\* second followed by one more octet), a message header
IpfixPayloads ==
    { <<>>,
      <<1, 0, 0, 1, 0, 1, 0, 4>>,
      <<1, 0, 0, 4, 1, 2, 3, 4>>,
      <<1, 0, 0, 5, 1, 2, 3, 4, 0>>,
      <<0, 4, 0, 2>>,
      <<128, 1, 0, 4, 0, 0, 0, 9>>,
      <<255, 255, 255, 255, 0, 0, 1, 0, 7>>,
      <<0, 99, 0, 4>>,
      <<0, 10, 0, 16, 0, 0, 0, 1, 0, 0, 0, 2, 0, 0, 0, 3>> }

\* template records: id 256 with two fields (element 1 of length 4, then
\* code 0x8001 of enterprise 9) and one octet after them; with a second
\* field of a length out of its range; with an unregistered first field
\* in front of a field of a length out of its range; id 300 with no field
TemplateRecords ==
    { <<1, 0, 0, 2, 0, 1, 0, 4, 128, 1, 0, 4, 0, 0, 0, 9, 7>>,
      <<1, 0, 0, 2, 0, 1, 0, 4, 0, 4, 0, 2>>,
      <<1, 0, 0, 2, 0, 99, 0, 4, 0, 4, 0, 2>>,
      <<1, 44, 0, 0>> }

IpfixInputs ==
    IpfixPayloads
    \cup TemplateRecords
    \cup { Be16(id) \o Be16(length) \o p :
             id \in SetIds, length \in DeclaredLengths, p \in IpfixPayloads }

\* Option<&[FieldSpecifier]>::None
NoFields == [some |-> FALSE, v |-> <<>>]

FieldChoices ==
    { NoFields, Some(<<>>), Some(<<FieldSpecifier(0, 1, 4)>>),
      Some(<<FieldSpecifier(0, 1, 3), FieldSpecifier(0, 4, 1)>>),
      Some(<<FieldSpecifier(0, 82, 0)>>) }

\* the slice handed to the parsers that take field specifiers
FieldsOrEmpty(f) == IF f.some THEN f.v ELSE <<>>

IpfixInit ==
    /\ CodecInit
    /\ ipfix_in \in IpfixInputs
    /\ ipfix_fields \in FieldChoices
    /\ ipfix_out = NotParsed
    /\ OriginIdle

ParseSet ==
    /\ ipfix_out.op = "none"
    /\ ipfix_out' = [op |-> "Set", res |-> Set_from_wire(ipfix_in, ipfix_fields)]
    /\ UNCHANGED <<ipfix_in, ipfix_fields>>
    /\ UNCHANGED codecVars
    /\ UNCHANGED originVars

ParseDataRecord(padding) ==
    /\ ipfix_out.op = "none"
    /\ ipfix_out' = [op |-> "DataRecord",
                     res |-> DataRecord_from_wire(ipfix_in, FieldsOrEmpty(ipfix_fields),
                                                  padding)]
    /\ UNCHANGED <<ipfix_in, ipfix_fields>>
    /\ UNCHANGED codecVars
    /\ UNCHANGED originVars

ParseTemplateRecord ==
    /\ ipfix_out.op = "none"
    /\ ipfix_out' = [op |-> "TemplateRecord", res |-> TemplateRecord_from_wire(ipfix_in)]
    /\ UNCHANGED <<ipfix_in, ipfix_fields>>
    /\ UNCHANGED codecVars
    /\ UNCHANGED originVars

ParseFieldSpecifier ==
    /\ ipfix_out.op = "none"
    /\ ipfix_out' = [op |-> "FieldSpecifier", res |-> FieldSpecifier_from_wire(ipfix_in)]
    /\ UNCHANGED <<ipfix_in, ipfix_fields>>
    /\ UNCHANGED codecVars
    /\ UNCHANGED originVars

ParseIpfixHeader ==
    /\ ipfix_out.op = "none"
    /\ ipfix_out' = [op |-> "IpfixHeader", res |-> IpfixHeader_from_wire(ipfix_in)]
    /\ UNCHANGED <<ipfix_in, ipfix_fields>>
    /\ UNCHANGED codecVars
    /\ UNCHANGED originVars

IpfixNext ==
    \/ ParseSet
    \/ \E padding \in {0, 1} : ParseDataRecord(padding)
    \/ ParseTemplateRecord
    \/ ParseFieldSpecifier
    \/ ParseIpfixHeader

IpfixSpec == IpfixInit /\ [][IpfixNext]_vars

(***************************************************************************)
(* The ORIGIN codec applied to bounded inputs                              *)
(***************************************************************************)
\* the six inputs of test_origin_value: IGP, EGP, Incomplete, a zero
\* length, a length of two, an undefined code
OriginTestWires ==
    {<<1, 0>>, <<1, 1>>, <<1, 2>>, <<0, 2>>, <<2, 2>>, <<1, 3>>}

\* the octets the inputs are made of
OriginOctets == {0, 1, 2, 3, 255}

\* every input of up to three octets
OriginInputs ==
    OriginTestWires
    \cup {<<>>}
    \cup {<<a>> : a \in OriginOctets}
    \cup {<<a, b>> : a, b \in OriginOctets}
    \cup {<<a, b, c>> : a, b, c \in OriginOctets}

OriginInit ==
    /\ CodecInit
    /\ ipfix_in = <<>>
    /\ ipfix_fields = [some |-> FALSE, v |-> <<>>]
    /\ ipfix_out = NotParsed
    /\ origin_in \in OriginInputs
    /\ origin_ext \in BOOLEAN
    /\ origin_out = OriginNotParsed

\* Origin::from_wire(Span::new(input), extended_length)
ParseOrigin ==
    /\ origin_out.op = "none"
    /\ origin_out' = [op |-> "from_wire", res |-> Origin_from_wire(origin_in, origin_ext),
                      written |-> <<>>]
    /\ UNCHANGED <<origin_in, origin_ext>>
    /\ UNCHANGED codecVars
    /\ UNCHANGED ipfixVars

\* the decoded origin is written back with the same extended_length
WriteOrigin ==
    /\ origin_out.op = "from_wire"
    /\ origin_out.res.tag = "Ok"
    /\ origin_out' = [origin_out EXCEPT
                        !.op = "write",
                        !.written = Origin_write(origin_out.res.val, origin_ext)]
    /\ UNCHANGED <<origin_in, origin_ext>>
    /\ UNCHANGED codecVars
    /\ UNCHANGED ipfixVars

OriginNext ==
    \/ ParseOrigin
    \/ WriteOrigin

OriginSpec == OriginInit /\ [][OriginNext]_vars

(***************************************************************************)
(* BmpMessage::write applied to Initiation messages with one information  *)
(* TLV of a given payload length                                           *)
(***************************************************************************)
\* payload lengths around the limits of one octet and of the 2-octet
\* length field
PayloadLengths == {0, 1, 2, 255, 256, 257, 65534, 65535, 65536, 65537, 65538, 131072}

\* a payload of n octets
Payload(n) == [i \in 1..n |-> 65]

\* every kind of InitiationInformation with every payload
InformationValues ==
    {Information(code, Payload(n)) : code \in InformationCodes, n \in PayloadLengths}

\* msg.len() and msg.write(&mut writer) on BmpMessage::Initiation([info])
WriteInitiation(info) ==
    /\ last.op = "init"
    /\ last' = [NoCall EXCEPT !.op = "write", !.msg = Initiation(<<info>>), !.tag = "Ok",
                  !.length = BmpMessage_len(Initiation(<<info>>)),
                  !.written = BmpMessage_write(Initiation(<<info>>))]
    /\ UNCHANGED <<wire, buf, in_message, ctx, nitems, panicked>>
    /\ UNCHANGED ipfixVars
    /\ UNCHANGED originVars

WriteNext == \E info \in InformationValues : WriteInitiation(info)

WriteSpec == Init /\ [][WriteNext]_vars

(***************************************************************************)
(* update_parsing_ctx called on decoded messages, as                       *)
(* tests::test_peer_key_add_remove calls it                                *)
(***************************************************************************)
\* number of update_parsing_ctx calls on one codec
MaxUpdates == 4

\* a PeerUp as in tests::test_peer_key_add_remove: the received Open carries
\* the BGP id of the peer header, and neither Open offers AddPath or
\* MultipleLabels
M_PeerUpPlain ==
    PeerUpNotification(PH1, <<V6(3), 179, 29834>>,
        BgpOpen(3, <<CapFourOctetAs>>), BgpOpen(1, <<CapFourOctetAs>>), <<>>)

\* a PeerUp whose received Open carries a BGP id other than the peer header's
M_PeerUpApart ==
    PeerUpNotification(PH1, <<V6(3), 179, 29834>>,
        BgpOpen(3, <<CapAddPath(<<AddPathFamily("Ipv6Unicast", TRUE, FALSE)>>),
                     CapMultipleLabels(<<MultipleLabel("Ipv4Unicast", 3)>>)>>),
        BgpOpen(2, <<CapAddPath(<<AddPathFamily("Ipv4Unicast", FALSE, TRUE)>>)>>),
        <<>>)

\* the peer header of another peer of the same router
PH2 ==
    PeerHeader(GlobalInstancePeer(TRUE, FALSE, FALSE, FALSE), None, Some(V6(2)), 64513, 4,
               Some(1664821826))

\* the PeerUp of that other peer
M_PeerUpOther ==
    PeerUpNotification(PH2, <<V6(3), 179, 29835>>,
        BgpOpen(3, <<CapAddPath(<<AddPathFamily("Ipv4Unicast", TRUE, TRUE)>>)>>),
        BgpOpen(4, <<CapMultipleLabels(<<MultipleLabel("Ipv4Unicast", 5)>>)>>),
        <<>>)

\* a PeerUp whose sent message is not an Open; the received Open carries the
\* BGP id of the peer header
M_PeerUpRecvOnly ==
    PeerUpNotification(PH1, <<V6(3), 179, 29834>>,
        BgpKeepAlive, BgpOpen(1, <<CapAddPath(<<AddPathFamily("Ipv6Unicast", TRUE, TRUE)>>)>>),
        <<>>)

\* a PeerUp neither of whose messages is an Open
M_PeerUpNoOpen ==
    PeerUpNotification(PH1, <<V6(3), 179, 29834>>, BgpKeepAlive, BgpKeepAlive, <<>>)

\* the messages update_parsing_ctx is called with
ContextMessages ==
    {M_PeerUp, M_PeerUpPlain, M_PeerUpApart, M_PeerUpOther, M_PeerUpRecvOnly, M_PeerUpNoOpen,
     M_PeerDown, M_Termination, M_RouteMonitoring, M_Initiation}

\* codec.update_parsing_ctx(&msg)
UpdateParsingCtx(m) ==
    /\ nitems < MaxUpdates
    /\ nitems' = nitems + 1
    /\ ctx' = update_parsing_ctx(ctx, m)
    /\ last' = [NoCall EXCEPT !.op = "update", !.msg = m, !.pre_ctx = ctx]
    /\ UNCHANGED <<wire, buf, in_message, panicked>>
    /\ UNCHANGED ipfixVars
    /\ UNCHANGED originVars

CtxNext == \E m \in ContextMessages : UpdateParsingCtx(m)

CtxSpec == Init /\ [][CtxNext]_vars

(***************************************************************************)
(* A codec that is handed a buffer and called until it asks for more bytes *)
(***************************************************************************)
\* frames that a remote peer may send and that the body decoder rejects
\* after it has started on them
MalformedFrames ==
    { Frame(<<>>),                                          \* no message type
      Frame(U8(0) \o PeerHeader_write(PH1) \o <<255>>) }    \* a broken route update

\* what the buffer holds: frames written by the encoder, a Termination
\* frame of a peer, malformed input, and the first octets of a frame
DrainItems ==
    {BmpMessage_write(m) : m \in {n \in Messages : ~BmpMessage_write_panics(n)}}
    \cup {Frame(WireValue(M_Termination))}
    \cup HostileChunks
    \cup MalformedFrames
    \cup {Take(BmpMessage_write(M_PeerDown), 7)}

RECURSIVE Concat(_, _)
\* the items of a sequence, one after the other
Concat(items, i) == IF i > Len(items) THEN <<>> ELSE items[i] \o Concat(items, i + 1)

DrainBuffers ==
    {Concat(items, 1) : items \in UNION {[1..n -> DrainItems] : n \in 0..MaxItems}}

\* BmpCodec::default() and a buffer that has received all its bytes
DrainInit ==
    /\ buf \in DrainBuffers
    /\ wire = <<>>
    /\ in_message = FALSE
    /\ ctx = EmptyMap
    /\ nitems = 0
    /\ panicked = FALSE
    /\ last = NoCall
    /\ ipfix_in = <<>>
    /\ ipfix_fields = [some |-> FALSE, v |-> <<>>]
    /\ ipfix_out = NotParsed
    /\ OriginIdle

DrainNext == Decode

\* the caller keeps calling decode (tokio's FramedRead loop)
DrainSpec == DrainInit /\ [][DrainNext]_vars /\ WF_vars(Decode)

(***************************************************************************)
(* Properties of the frame decoder and the encoder                         *)
(***************************************************************************)
\* the messages that the encoder turns into a well-formed frame
WellFormedMessages ==
    {m \in Messages : ~BmpMessage_write_panics(m) /\ BmpMessage_write(m) = Frame(WireValue(m))}

Max(a, b) == IF a >= b THEN a ELSE b

\* C1 - Partial-buffer safety: for every well-formed encoded message, a
\* decode call made on a proper prefix of its bytes returns Ok(None) and
\* leaves the buffer unchanged, and a call made once all its bytes are
\* buffered returns the message.
C1_PartialBufferSafety ==
    last.op = "decode" =>
        \A m \in WellFormedMessages :
            LET w == BmpMessage_write(m)
            IN  /\ IsProperPrefix(last.pre, w) => last.tag = "None" /\ buf = last.pre
                /\ IsPrefix(w, last.pre) => last.tag = "Some" /\ last.msg = m

\* a call that returned the message after an earlier call had waited for it
C1_Witness ==
    /\ last.op = "decode"
    /\ last.pre_in
    /\ last.pre = BmpMessage_write(M_PeerDown)
    /\ last.tag = "Some"
    /\ last.msg = M_PeerDown

\* C2 - Round-trip: decode on a buffer holding exactly encode(m) returns
\* Ok(Some(m)) and leaves the buffer empty; decode on an empty buffer
\* returns Ok(None).
C2_RoundTrip ==
    last.op = "decode" =>
        /\ \A m \in Messages :
              (~BmpMessage_write_panics(m) /\ last.pre = BmpMessage_write(m))
                  => (last.tag = "Some" /\ last.msg = m /\ buf = <<>>)
        /\ last.pre = <<>> => last.tag = "None"

\* C3 - Length consistency: the number of bytes encode appends equals
\* len(), which is the value of the 4-byte length field.
C3_LengthConsistency ==
    (last.op = "encode" /\ last.tag = "Ok") =>
        /\ Len(last.written) = last.length
        /\ ReadU32(SubSeq(last.written, 2, 5)) = last.length

\* C4 - No abort on input: every decode call and every IPFIX parser call
\* finishes by returning a value (a message, need-more-data or an error).
C4_NoAbort ==
    /\ last.op = "decode" => last.tag \in {"None", "Some", "Err"}
    /\ ipfix_out.op # "none" => ipfix_out.res.tag \in {"Ok", "Error"}

\* the set header of the input is whole and names a template (id >= 256)
IsDataSetInput ==
    /\ Len(ipfix_in) >= 4
    /\ ReadU16(Take(ipfix_in, 2)) >= 256
    /\ ReadU16(SubSeq(ipfix_in, 3, 4)) >= 4
    /\ Len(ipfix_in) >= ReadU16(SubSeq(ipfix_in, 3, 4))

\* C5 - Template resolution, undefined case: a data set decoded with no
\* field specifiers known returns FieldSpecifierIsNotDefined.
C5_UndefinedTemplate ==
    (ipfix_out.op = "Set" /\ IsDataSetInput /\ ~ipfix_fields.some) =>
        (ipfix_out.res.tag = "Error" /\ ipfix_out.res.err = "FieldSpecifierIsNotDefined")

\* C6 - Template resolution, defined case: a data set whose records parse
\* under the supplied field specifiers decodes to a Data payload in which
\* every flow holds one record per field specifier, in template order.
C6_DefinedTemplate ==
    (/\ ipfix_out.op = "Set"
     /\ IsDataSetInput
     /\ ipfix_fields.some
     /\ DataTillEmpty(SubSeq(ipfix_in, 5, ReadU16(SubSeq(ipfix_in, 3, 4))),
                      ipfix_fields.v, 0).tag = "Ok") =>
        /\ ipfix_out.res.tag = "Ok"
        /\ ipfix_out.res.val.payload = "Data"
        /\ \A i \in DOMAIN ipfix_out.res.val.items :
              \A j \in DOMAIN ipfix_out.res.val.items[i].flows :
                 LET flow == ipfix_out.res.val.items[i].flows[j]
                 IN  /\ Len(flow) = Len(ipfix_fields.v)
                     /\ \A k \in DOMAIN flow :
                           flow[k].element_id = ipfix_fields.v[k].element_id

\* what the unknown-version branch does: the error, one byte consumed,
\* the flag and the context store untouched
VersionSkipped ==
    /\ last.tag = "Err"
    /\ last.err = "UndefinedBmpVersion"
    /\ buf = Drop(last.pre, 1)
    /\ in_message = last.pre_in
    /\ ctx = last.pre_ctx

\* C7 as stated - for any buffer whose first byte is not a recognized
\* version, one decode call returns UndefinedBmpVersion and advances the
\* buffer by exactly one byte, changing nothing else.
C7_AnyBuffer ==
    (last.op = "decode" /\ last.pre # <<>> /\ ~BmpVersion_ok(last.pre[1])) => VersionSkipped

\* C7 - Unknown-version skip: for a buffer of at least 5 bytes (or with a
\* frame in progress) whose first byte is not a recognized version, one
\* decode call returns UndefinedBmpVersion and advances the buffer by
\* exactly one byte, changing nothing else.
C7_UnknownVersionSkip ==
    (/\ last.op = "decode"
     /\ last.pre # <<>>
     /\ ~BmpVersion_ok(last.pre[1])
     /\ (Len(last.pre) >= BMP_MESSAGE_MIN_LENGTH \/ last.pre_in)) => VersionSkipped

\* the skipped byte was followed by a well-formed frame, now at the head
C7_Witness ==
    /\ last.op = "decode"
    /\ last.err = "UndefinedBmpVersion"
    /\ buf = BmpMessage_write(M_Initiation)

\* C8 - Body-failure skip: when the body decoder was called and failed,
\* decode returns an error and advances the buffer by exactly
\* max(declared length, 5) bytes, which never exceeds the bytes buffered.
C8_BodyFailureSkip ==
    (last.op = "decode" /\ last.called /\ last.tag # "Some") =>
        /\ last.tag = "Err"
        /\ Max(last.length, 5) <= Len(last.pre)
        /\ buf = Drop(last.pre, Max(last.length, 5))

\* a body failure on a frame that declares fewer than 5 bytes
C8_Witness ==
    /\ last.op = "decode"
    /\ last.called
    /\ last.tag = "Err"
    /\ last.length < 5
    /\ Len(buf) = Len(last.pre) - 5

\* C9 - Need-more-data consumes nothing: every decode call that returns
\* Ok(None) leaves the buffer as it was.
C9_NoneConsumesNothing ==
    (last.op = "decode" /\ last.tag = "None") => buf = last.pre

\* Ok(None) on a header that declares more bytes than are buffered
C9_Witness ==
    /\ last.op = "decode"
    /\ last.tag = "None"
    /\ Len(last.pre) >= BMP_MESSAGE_MIN_LENGTH
    /\ last.length > Len(last.pre)
    /\ buf = last.pre

\* C10 as stated - on Ok(Some(m)) the body decoder was given only the bytes
\* [0, declared length) and the buffer is advanced by the declared length.
C10_ExactSlice ==
    (last.op = "decode" /\ last.tag = "Some") =>
        /\ last.span = Take(last.pre, last.length)
        /\ buf = Drop(last.pre, last.length)

\* C10 - A successful decode consumes exactly its frame: on Ok(Some(m)) the
\* body decoder was given the whole buffer, and the buffer is advanced by
\* exactly the declared length, so the bytes that follow the frame stay
\* buffered.
C10_ConsumesExactlyItsFrame ==
    (last.op = "decode" /\ last.tag = "Some") =>
        /\ last.span = last.pre
        /\ last.length <= Len(last.pre)
        /\ buf = Drop(last.pre, last.length)

\* a message returned while the bytes of a following frame were buffered
C10_Witness ==
    /\ last.op = "decode"
    /\ last.tag = "Some"
    /\ last.msg = M_PeerDown
    /\ buf = BmpMessage_write(M_Initiation)


(***************************************************************************)
(* Properties of the session context store                                 *)
(***************************************************************************)
\* the key of the peer header of the last message
LastKey == PeerKey_from_peer_header(last.msg.ph)

\* the elements of a sequence
Range(s) == {s[i] : i \in DOMAIN s}

\* the AddPath address families / the MultipleLabels entries that an Open offers
OfferedFamilies(open) == UNION {Range(c.entries) : c \in {d \in Range(open.caps) : d.cap = "AddPath"}}

OfferedLabels(open) ==
    UNION {Range(c.entries) : c \in {d \in Range(open.caps) : d.cap = "MultipleLabels"}}

\* a context that holds exactly what the Open offers: address type -> receive
\* flag, address type -> count
Reflects(bgp_ctx, open) ==
    /\ DOMAIN bgp_ctx.add_path = {e.address_type : e \in OfferedFamilies(open)}
    /\ \A e \in OfferedFamilies(open) : bgp_ctx.add_path[e.address_type] = e.receive
    /\ DOMAIN bgp_ctx.multiple_labels = {e.address_type : e \in OfferedLabels(open)}
    /\ \A e \in OfferedLabels(open) : bgp_ctx.multiple_labels[e.address_type] = e.count

\* C11 - Context create/remove/recreate cycle: from any store, a PeerUp
\* (its sent message an Open) makes the key K of its peer header present,
\* and a PeerDown or a Termination with that peer header makes K absent.
C11_CreateRemoveRecreate ==
    last.op = "update" =>
        /\ (last.msg.kind = "PeerUpNotification" /\ last.msg.sent.type = "Open")
              => LastKey \in DOMAIN ctx
        /\ last.msg.kind \in {"PeerDownNotification", "Termination"} => LastKey \notin DOMAIN ctx

\* the fourth call of the cycle: a Termination removes the key that the
\* second PeerUp had created again
C11_Witness ==
    /\ last.op = "update"
    /\ nitems = 4
    /\ last.msg = M_Termination
    /\ LastKey \in DOMAIN last.pre_ctx
    /\ LastKey \notin DOMAIN ctx


\* the keys that a PeerUp writes: the peer-header key for a sent Open, the
\* key with the Open's own BGP id for a received Open
KeysOf(msg) ==
    (IF msg.sent.type = "Open" THEN {PeerKey_from_peer_header(msg.ph)} ELSE {})
    \cup (IF msg.recv.type = "Open" THEN {ReceivedKey(msg.ph, msg.recv)} ELSE {})

\* the Open of a PeerUp that is processed last for key k
OpenFor(msg, k) ==
    IF msg.recv.type = "Open" /\ ReceivedKey(msg.ph, msg.recv) = k THEN msg.recv ELSE msg.sent

\* C12 - Re-negotiation replaces, never merges: after a PeerUp, the add-path
\* and multiple-labels maps under each key it writes hold no address family
\* that the Open processed for that key did not offer, whatever the store
\* held before.
C12_ReplacesNeverMerges ==
    (last.op = "update" /\ last.msg.kind = "PeerUpNotification") =>
        \A k \in KeysOf(last.msg) :
            /\ k \in DOMAIN ctx
            /\ DOMAIN ctx[k].add_path
                   \subseteq {e.address_type : e \in OfferedFamilies(OpenFor(last.msg, k))}
            /\ DOMAIN ctx[k].multiple_labels
                   \subseteq {e.address_type : e \in OfferedLabels(OpenFor(last.msg, k))}

\* a PeerUp for a key under which an earlier negotiation had stored a family
\* that the new Open does not offer
C12_Witness ==
    /\ last.op = "update"
    /\ last.msg.kind = "PeerUpNotification"
    /\ LastKey \in DOMAIN last.pre_ctx
    /\ LastKey \in DOMAIN ctx
    /\ \E t \in DOMAIN last.pre_ctx[LastKey].add_path : t \notin DOMAIN ctx[LastKey].add_path


\* C13 - Context reflects exactly the offered extensions: after a PeerUp
\* whose sent message is an Open, the context under the peer-header key
\* holds exactly the add-path families and the multiple-labels entries of
\* that Open.
C13_ExactlyOffered ==
    (last.op = "update" /\ last.msg.kind = "PeerUpNotification" /\ last.msg.sent.type = "Open") =>
        /\ LastKey \in DOMAIN ctx
        /\ Reflects(ctx[LastKey], last.msg.sent)

\* C14 - The two sides of one negotiation are keyed independently: after a
\* PeerUp with a sent and a received Open, the peer-header key holds what
\* the sent Open offers and the key with the received Open's BGP id holds
\* what the received Open offers.
C14_IndependentSides ==
    (/\ last.op = "update"
     /\ last.msg.kind = "PeerUpNotification"
     /\ last.msg.sent.type = "Open"
     /\ last.msg.recv.type = "Open") =>
        /\ {LastKey, ReceivedKey(last.msg.ph, last.msg.recv)} \subseteq DOMAIN ctx
        /\ Reflects(ctx[LastKey], last.msg.sent)
        /\ Reflects(ctx[ReceivedKey(last.msg.ph, last.msg.recv)], last.msg.recv)


(***************************************************************************)
(* Further properties of the encoder and the frame decoder                 *)
(***************************************************************************)
\* C16 - Encoding is total over the message kinds: for every BmpMessage
\* variant len() returns a value and write() returns Ok or an error value;
\* no encode call aborts.
C16_EncodingTotal ==
    last.op = "encode" => (last.tag \in {"Ok", "Err"} /\ ~panicked)


\* C15 as stated - every decode call that returns need-more-data or an
\* error leaves the context store exactly as it was before the call.
C15_StoreUntouched ==
    (last.op = "decode" /\ last.tag \in {"None", "Err"}) => ctx = last.pre_ctx

\* C15 - The context store changes only after a successful body decode: a
\* decode call that returns need-more-data, or an error before the body
\* decoder ran, leaves the store as it was; a call that returns an error
\* of the body decoder removes and changes no entry, and adds at most
\* default contexts (the body decoder's lookup_or_default).
C15_StoreOnlyGainsDefaults ==
    (last.op = "decode" /\ last.tag \in {"None", "Err"}) =>
        /\ ~last.called => ctx = last.pre_ctx
        /\ DOMAIN last.pre_ctx \subseteq DOMAIN ctx
        /\ \A k \in DOMAIN last.pre_ctx : ctx[k] = last.pre_ctx[k]
        /\ \A k \in DOMAIN ctx \ DOMAIN last.pre_ctx : ctx[k] = DefaultContext

\* a body failure on a codec whose store holds a negotiated context
C15_Witness ==
    /\ last.op = "decode"
    /\ last.tag = "Err"
    /\ last.called
    /\ last.pre_ctx # EmptyMap
    /\ ctx = last.pre_ctx


\* C17 - Frames are delivered in stream order, one per call: a decode call
\* on a buffer that starts with the encoding of a message m returns m and
\* consumes exactly that encoding, and a call on an empty buffer returns
\* Ok(None); so the encodings of m1..mn are returned in order by n calls.
C17_StreamOrder ==
    last.op = "decode" =>
        /\ \A m \in {n \in Messages : ~BmpMessage_write_panics(n)} :
              IsPrefix(BmpMessage_write(m), last.pre) =>
                  /\ last.tag = "Some"
                  /\ last.msg = m
                  /\ buf = Drop(last.pre, Len(BmpMessage_write(m)))
        /\ last.pre = <<>> => (last.tag = "None" /\ buf = <<>>)


\* a decode call that returned an error took at least one octet off the buffer
ErrorConsumes ==
    (last.op = "decode" /\ last.tag = "Err") => Len(buf) < Len(last.pre)

\* the caller has been told that more bytes are needed
Drained == last.op = "decode" /\ last.tag = "None"

\* C18 - Forward progress: every decode call that returns an error consumes
\* at least one byte, and on a buffer that receives no new bytes a caller
\* that keeps calling decode reaches Ok(None) and stays there.
C18_ForwardProgress == [](ErrorConsumes) /\ <>[](Drained)

\* the buffer went empty on a call that returned an error
C18_Witness ==
    /\ last.op = "decode"
    /\ last.tag = "Err"
    /\ last.pre # <<>>
    /\ buf = <<>>


\* what the body decoder returned on the span it was handed
BodyResult == BmpMessage_from_wire(last.span, last.pre_ctx)

\* C19 - A nested incomplete is a hard error, not a retry: when the whole
\* declared frame is buffered and the body decoder reports Incomplete,
\* decode returns Err(Incomplete(hint)), the hint being the needed size
\* when known and None otherwise, and the frame is skipped.
C19_NestedIncompleteIsError ==
    (last.op = "decode" /\ last.called /\ BodyResult.tag = "Incomplete") =>
        /\ last.tag = "Err"
        /\ last.err = "Incomplete"
        /\ last.needed = BodyResult.needed
        /\ buf = Drop(last.pre, Max(last.length, BMP_MESSAGE_MIN_LENGTH))
        /\ Len(buf) < Len(last.pre)

\* an incomplete body with a known needed size, more input being buffered
\* behind the frame
C19_Witness ==
    /\ last.op = "decode"
    /\ last.called
    /\ BodyResult.tag = "Incomplete"
    /\ last.err = "Incomplete"
    /\ last.needed = Some(1)
    /\ buf # <<>>


(***************************************************************************)
(* Properties of the IPFIX field specifier parser                          *)
(***************************************************************************)
\* the code, the declared length and the enterprise number that the input
\* of FieldSpecifier::from_wire carries
FieldCode == ReadU16(Take(ipfix_in, 2))

FieldLength == ReadU16(SubSeq(ipfix_in, 3, 4))

FieldPen == IF FieldCode >= 32768 THEN ReadU32(SubSeq(ipfix_in, 5, 8)) ELSE 0

\* the input holds a whole field specifier of a known information element
FieldIsKnown ==
    /\ Len(ipfix_in) >= 4
    /\ FieldCode >= 32768 => Len(ipfix_in) >= 8
    /\ InformationElementId_ok(FieldPen, FieldCode)

\* the element has a registered length range and the declared length is outside it
FieldOutOfRange ==
    LET range == length_range([pen |-> FieldPen, code |-> FieldCode])
    IN  range.some /\ FieldLength \notin range.v[1]..range.v[2]

\* C20 - Field length validation: FieldSpecifier::from_wire returns
\* InvalidLength(length) exactly when the information element has a
\* registered length range that does not contain the declared length; with
\* no registered range every declared length is accepted; the parser
\* returns a value or an error value on every input.
C20_FieldLengthValidation ==
    ipfix_out.op = "FieldSpecifier" =>
        /\ ipfix_out.res.tag \in {"Ok", "Error"}
        /\ (ipfix_out.res.tag = "Error" /\ ipfix_out.res.err = "InvalidLength")
              <=> (FieldIsKnown /\ FieldOutOfRange)
        /\ (ipfix_out.res.tag = "Error" /\ ipfix_out.res.err = "InvalidLength")
              => ipfix_out.res.arg = FieldLength
        /\ (FieldIsKnown /\ ~FieldOutOfRange) =>
              (ipfix_out.res.tag = "Ok" /\ ipfix_out.res.val.length = FieldLength)

\* octetDeltaCount (element 1, range 1..8) declared with length 12
C20_Witness ==
    /\ ipfix_out.op = "FieldSpecifier"
    /\ FieldIsKnown
    /\ FieldCode = 1
    /\ FieldLength = 12
    /\ ipfix_out.res.tag = "Error"
    /\ ipfix_out.res.err = "InvalidLength"
    /\ ipfix_out.res.arg = 12

\* the input of FieldSpecifier::from_wire holds a whole specifier whose
\* code has the enterprise bit and whose enterprise number is not IANA's 0:
\* a code of an extension that no registry of the library lists
FieldIsEnterprise ==
    /\ Len(ipfix_in) >= 8
    /\ FieldCode >= 32768
    /\ FieldPen # 0

RECURSIVE FieldsLength(_, _)
\* the octets one flow takes under the field specifiers from index i on
FieldsLength(fields, i) ==
    IF i > Len(fields) THEN 0
    ELSE fields[i].length + FieldsLength(fields, i + 1)

\* the octets of one flow under the field specifiers of the call
FlowLength == FieldsLength(FieldsOrEmpty(ipfix_fields), 1)

\* the record length that the input of DataRecord::from_wire declares
RecordLength == ReadU16(SubSeq(ipfix_in, 3, 4))

\* the input holds a whole data record and a flow takes at least one octet
HoldsWholeRecord ==
    /\ Len(ipfix_in) >= 4
    /\ Len(ipfix_in) >= 4 + RecordLength
    /\ FlowLength > 0

\* C22 - Padding is discarded: DataRecord::from_wire on a whole record
\* returns the whole flows that fit the declared record length, drops the
\* octets left inside the record after the last whole flow without reading
\* them as a flow and without an error, and hands back the input from right
\* after the declared record length.
C22_PaddingDiscarded ==
    (ipfix_out.op = "DataRecord" /\ HoldsWholeRecord) =>
        /\ ipfix_out.res.tag = "Ok"
        /\ Len(ipfix_out.res.val.flows) = RecordLength \div FlowLength
        /\ ipfix_out.res.rest = Drop(ipfix_in, 4 + RecordLength)


(***************************************************************************)
(* Further properties of the session context store                         *)
(***************************************************************************)
\* the last call was update_parsing_ctx with a PeerDown or a Termination
LastRemoves ==
    /\ last.op = "update"
    /\ last.msg.kind \in {"PeerDownNotification", "Termination"}

\* C23 - Removal is idempotent: update_parsing_ctx with a PeerDown or a
\* Termination whose key is absent from the store returns normally and
\* leaves the store as it was; after any PeerDown or Termination with key K,
\* K is absent from the store.
C23_RemovalIdempotent ==
    LastRemoves =>
        /\ ~panicked
        /\ LastKey \notin DOMAIN ctx
        /\ LastKey \notin DOMAIN last.pre_ctx => ctx = last.pre_ctx

\* a second PeerDown for a key already removed, on a store that still holds
\* the entry of another key
C23_Witness ==
    /\ LastRemoves
    /\ last.msg = M_PeerDown
    /\ LastKey \notin DOMAIN last.pre_ctx
    /\ last.pre_ctx # EmptyMap
    /\ ctx = last.pre_ctx


HeaderDeclaresMore ==
    /\ Len(last.pre) >= BMP_MESSAGE_MIN_LENGTH
    /\ BmpVersion_ok(last.pre[1])
    /\ Len(last.pre) < ReadU32(SubSeq(last.pre, 2, BMP_MESSAGE_MIN_LENGTH))

\* C25 - The in-progress flag follows the buffer length only: after a
\* decode call that returned, in_message is true exactly when the call
\* returned Ok(None) on a buffer whose header has a recognized version and
\* declares more octets than are buffered; it is false after every call
\* that returned a message or an error of the body decoder.
C25_InMessageFlag ==
    (last.op = "decode" /\ last.tag # "Panic") =>
        /\ in_message <=> (last.tag = "None" /\ HeaderDeclaresMore)
        /\ (last.tag = "Some" \/ (last.tag = "Err" /\ last.called)) => ~in_message

\* a frame was in progress, its last octets arrived, and the call that
\* returned its message left the flag false
C25_Witness ==
    /\ last.op = "decode"
    /\ last.pre_in
    /\ last.tag = "Some"
    /\ ~in_message


\* C26 - Header reads stay in bounds: the buffer only grows between calls
\* and shrinks only through decode, and then a frame in progress implies
\* that at least 5 octets are buffered; no decode call reads buf[0] or
\* buf[1..5] or skips max(declared length, 5) octets past the end of the
\* buffer.
C26_HeaderReadsInBounds ==
    /\ in_message => Len(buf) >= BMP_MESSAGE_MIN_LENGTH
    /\ last.op = "decode" =>
          /\ last.tag # "Panic"
          /\ HeaderLookedAt(last.pre_in, last.pre) => Len(last.pre) >= BMP_MESSAGE_MIN_LENGTH
          /\ (last.tag = "Err" /\ last.called) =>
                 /\ ErrorSkip(last.length) <= Len(last.pre)
                 /\ buf = Drop(last.pre, ErrorSkip(last.length))

\* a frame in progress whose last octet arrived, whose body was refused and
\* which was skipped by its declared length
C26_Witness ==
    /\ last.op = "decode"
    /\ last.pre_in
    /\ last.tag = "Err"
    /\ last.called
    /\ last.length > BMP_MESSAGE_MIN_LENGTH
    /\ Len(last.pre) = last.length
    /\ buf = <<>>


\* C27 - Data record decoding terminates: DataRecord::from_wire returns a
\* record or an error for every input and every list of field specifiers,
\* the empty list and a list whose fields take no octets included.
C27_DataRecordTerminates ==
    ipfix_out.op = "DataRecord" => ipfix_out.res.tag \in {"Ok", "Error"}


\* the first call on the empty store was a PeerUp and the second, the last
\* one, a PeerDown or a Termination with the same peer header
SessionOpenedAndClosed ==
    /\ nitems = 2
    /\ LastRemoves
    /\ \E m \in ContextMessages :
          /\ m.kind = "PeerUpNotification"
          /\ m.ph = last.msg.ph
          /\ last.pre_ctx = update_parsing_ctx(EmptyMap, m)

\* C28 - A session leaves no residue: from an empty store, a PeerUp followed
\* by a PeerDown or a Termination with the same peer header leaves the store
\* empty: the entries of the sent side and of the received side are removed.
C28_NoResidue ==
    SessionOpenedAndClosed => ctx = EmptyMap


\* the keys derived from a message: the peer-header key of a PeerUp, a
\* PeerDown or a Termination and, for a PeerUp with a received Open, the
\* received-side key
DerivedKeys(msg) ==
    CASE msg.kind = "PeerUpNotification" ->
             {PeerKey_from_peer_header(msg.ph)}
             \cup (IF msg.recv.type = "Open" THEN {ReceivedKey(msg.ph, msg.recv)} ELSE {})
      [] msg.kind \in {"PeerDownNotification", "Termination"} ->
             {PeerKey_from_peer_header(msg.ph)}
      [] OTHER -> {}

\* the entry under key k is the same in both stores, or absent from both
SameEntry(before, after, k) ==
    /\ k \in DOMAIN before <=> k \in DOMAIN after
    /\ k \in DOMAIN before => after[k] = before[k]

\* C29 - Logical sessions do not interfere: update_parsing_ctx changes only
\* the entries under the keys derived from the message it processes; every
\* entry under another key is as it was, none is added, and a message that
\* is not a PeerUp, a PeerDown or a Termination leaves the whole store
\* unchanged.
C29_SessionsDoNotInterfere ==
    last.op = "update" =>
        /\ \A k \in (DOMAIN last.pre_ctx \cup DOMAIN ctx) \ DerivedKeys(last.msg) :
               SameEntry(last.pre_ctx, ctx, k)
        /\ last.msg.kind \notin {"PeerUpNotification", "PeerDownNotification", "Termination"}
               => ctx = last.pre_ctx

\* a PeerUp of one peer processed while the store holds the entries of
\* another peer, which stay
C29_Witness ==
    /\ last.op = "update"
    /\ last.msg = M_PeerUp
    /\ DerivedKeys(M_PeerUpOther) \subseteq DOMAIN last.pre_ctx
    /\ DerivedKeys(M_PeerUp) \cap DerivedKeys(M_PeerUpOther) = {}
    /\ \A k \in DerivedKeys(M_PeerUpOther) : ctx[k] = last.pre_ctx[k]
    /\ ctx # last.pre_ctx

\* C30 - A PeerUp without an Open does not renegotiate: when the sent
\* message of a PeerUp is not an Open, the entry under the peer-header key
\* (the sent side) is neither created nor cleared nor changed; when the
\* received message is not an Open, nothing but the sent side's entry
\* changes.
C30_NoOpenNoRenegotiation ==
    (last.op = "update" /\ last.msg.kind = "PeerUpNotification") =>
        /\ last.msg.sent.type # "Open" => SameEntry(last.pre_ctx, ctx, LastKey)
        /\ last.msg.recv.type # "Open" =>
               \A k \in (DOMAIN last.pre_ctx \cup DOMAIN ctx) \ {LastKey} :
                   SameEntry(last.pre_ctx, ctx, k)


(***************************************************************************)
(* Layout of the IPFIX field specifier, set and template record            *)
(***************************************************************************)
\* FieldSpecifier::from_wire returned a field specifier
FieldParsed ==
    /\ ipfix_out.op = "FieldSpecifier"
    /\ ipfix_out.res.tag = "Ok"

\* C31 as stated - Field specifier layout: the 2-octet code, then, when the
\* top bit of the code is set, the 4-octet enterprise number, then the
\* 2-octet declared length; 4 octets consumed for a standard code
\* (enterprise number 0), 8 for an enterprise code.
C31_PenBeforeLength ==
    FieldParsed =>
        IF FieldCode >= 32768
        THEN /\ ipfix_out.res.val.element_id.pen = ReadU32(SubSeq(ipfix_in, 3, 6))
             /\ ipfix_out.res.val.length = ReadU16(SubSeq(ipfix_in, 7, 8))
             /\ ipfix_out.res.rest = Drop(ipfix_in, 8)
        ELSE /\ ipfix_out.res.val.element_id.pen = 0
             /\ ipfix_out.res.val.length = ReadU16(SubSeq(ipfix_in, 3, 4))
             /\ ipfix_out.res.rest = Drop(ipfix_in, 4)

\* C31 - Field specifier layout as the parser reads it: the 2-octet code,
\* then the 2-octet declared length, then, when the top bit of the code is
\* set, the 4-octet enterprise number; 4 octets consumed for a standard code
\* (enterprise number 0), 8 for an enterprise code; an input shorter than
\* that is a nom error.
C31_LengthBeforePen ==
    ipfix_out.op = "FieldSpecifier" =>
        /\ ipfix_out.res.tag = "Ok" =>
              /\ ipfix_out.res.val.element_id.code = ReadU16(Take(ipfix_in, 2))
              /\ ipfix_out.res.val.length = ReadU16(SubSeq(ipfix_in, 3, 4))
              /\ IF FieldCode >= 32768
                 THEN /\ ipfix_out.res.val.element_id.pen = ReadU32(SubSeq(ipfix_in, 5, 8))
                      /\ ipfix_out.res.rest = Drop(ipfix_in, 8)
                 ELSE /\ ipfix_out.res.val.element_id.pen = 0
                      /\ ipfix_out.res.rest = Drop(ipfix_in, 4)
        /\ (Len(ipfix_in) < 4 \/ (FieldCode >= 32768 /\ Len(ipfix_in) < 8)) =>
              ipfix_out.res = NomEof

\* 80 01 00 04 00 00 00 09: code 0x8001, length 4, enterprise 9
C31_Witness ==
    /\ FieldParsed
    /\ ipfix_in = <<128, 1, 0, 4, 0, 0, 0, 9>>
    /\ ipfix_out.res.val = FieldSpecifier(9, 32769, 4)
    /\ ipfix_out.res.rest = <<>>


(***************************************************************************)
(* Width of the length field of an information TLV                         *)
(***************************************************************************)
\* the information TLV of the Initiation message written last, the length
\* of its payload, and the 2-octet length field found in the bytes written
\* (after version, message length, message type and TLV type)
WrittenInfo == last.msg.info[1]

PayloadLength == Len(WrittenInfo.value)

LengthField == ReadU16(SubSeq(last.written, 9, 10))

\* C32 - TLV length field width: InitiationInformation::write emits a
\* 2-octet length field equal to the payload's length for every payload of
\* at most 65535 octets; for a longer payload the field holds the length
\* modulo 65536 and so differs from it, while len(), the message length
\* field and the bytes written count the whole payload.
C32_LengthFieldWidth ==
    last.op = "write" =>
        /\ PayloadLength <= 65535 => LengthField = PayloadLength
        /\ PayloadLength > 65535 =>
               /\ LengthField = PayloadLength % 65536
               /\ LengthField # PayloadLength
        /\ InitiationInformation_len(WrittenInfo) = 4 + PayloadLength
        /\ last.length = 10 + PayloadLength
        /\ Len(last.written) = last.length
        /\ ReadU32(SubSeq(last.written, 2, 5)) = last.length
        /\ Drop(last.written, 10) = WrittenInfo.value

\* a payload of 65537 octets written with a length field of 1
C32_Witness ==
    /\ last.op = "write"
    /\ PayloadLength = 65537
    /\ LengthField = 1
    /\ Len(last.written) = 65547


\* the length that the input of Set::from_wire declares
SetLength == ReadU16(SubSeq(ipfix_in, 3, 4))

\* C33 - A set consumes exactly its declared length: Set::from_wire refuses
\* a declared length below 4 with InvalidLength(length), and when it
\* returns a set, the remainder it returns starts exactly `length` octets
\* after the start of the set, whatever the payload parser used inside.
C33_SetConsumesDeclaredLength ==
    ipfix_out.op = "Set" =>
        /\ (Len(ipfix_in) >= 4 /\ SetLength < 4) =>
               ipfix_out.res = Failed("InvalidLength", SetLength)
        /\ ipfix_out.res.tag = "Ok" =>
               /\ SetLength >= 4
               /\ Len(ipfix_in) >= SetLength
               /\ ipfix_out.res.rest = Drop(ipfix_in, SetLength)

\* a template set of declared length 4, holding no record, in front of 8
\* more octets, which are all handed back
C33_Witness ==
    /\ ipfix_out.op = "Set"
    /\ ipfix_out.res.tag = "Ok"
    /\ SetLength = 4
    /\ Len(ipfix_in) = 12
    /\ ipfix_out.res.val.items = <<>>
    /\ ipfix_out.res.rest = Drop(ipfix_in, 4)
    /\ Len(ipfix_out.res.rest) = 8


\* the template id and the field count that the input of
\* TemplateRecord::from_wire carries
TemplateId == ReadU16(Take(ipfix_in, 2))

FieldCount == ReadU16(SubSeq(ipfix_in, 3, 4))

RECURSIVE InputAfter(_)
\* the input left once the id, the count and the first k field specifiers
\* have been read
InputAfter(k) ==
    IF k = 0 THEN Drop(ipfix_in, 4)
    ELSE FieldSpecifier_from_wire(InputAfter(k - 1)).rest

\* what FieldSpecifier::from_wire returns for the k-th field of the record
FieldResult(k) == FieldSpecifier_from_wire(InputAfter(k - 1))

\* C34 - Template ids below 256 are rejected: TemplateRecord::from_wire
\* returns InvalidTemplateId(id) for every id in 0..255 whatever follows the
\* id; for an id of 256 or more followed by a field count it returns a
\* template of that id holding exactly field_count field specifiers in wire
\* order and the input after them, or the error of the first field
\* specifier that fails.
C34_TemplateIdRange ==
    ipfix_out.op = "TemplateRecord" =>
        /\ (Len(ipfix_in) >= 2 /\ TemplateId < 256) =>
               ipfix_out.res = Failed("InvalidTemplateId", TemplateId)
        /\ (Len(ipfix_in) >= 4 /\ TemplateId >= 256) =>
               IF \A k \in 1..FieldCount : FieldResult(k).tag = "Ok"
               THEN ipfix_out.res =
                        Parsed(InputAfter(FieldCount),
                               [id |-> TemplateId,
                                fields |-> [k \in 1..FieldCount |-> FieldResult(k).val]])
               ELSE \E k \in 1..FieldCount :
                        /\ \A j \in 1..(k - 1) : FieldResult(j).tag = "Ok"
                        /\ FieldResult(k).tag # "Ok"
                        /\ ipfix_out.res = FieldResult(k)

\* template 256 with two fields, returned in wire order with the octet
\* that follows them
C34_Witness ==
    /\ ipfix_out.op = "TemplateRecord"
    /\ Len(ipfix_in) >= 4
    /\ TemplateId = 256
    /\ FieldCount = 2
    /\ ipfix_out.res.tag = "Ok"
    /\ ipfix_out.res.val.fields = <<FieldSpecifier(0, 1, 4), FieldSpecifier(9, 32769, 4)>>
    /\ ipfix_out.res.rest = <<7>>

====
